---- MODULE Spec2Model ----
(***************************************************************************)
(* Lynxe timeline tooling: the trace normalizer                            *)
(* (AdvancedTimelineVisualizer.parse_execution_data), the two HTTP clients *)
(* and the two poll loops (RealtimeMonitor.monitor of                      *)
(* advanced_timeline_visualizer.py, TimelineMonitor.monitor of             *)
(* timeline_monitor.py).                                                   *)
(*                                                                         *)
(* Conventions.  A JSON field read with dict.get is a record               *)
(* [tag, val]: tag "absent" (no such key), "null" (JSON null) or "str".    *)
(* Free text is a sequence of one-character strings.  An Optional Python   *)
(* value is a record [some, data]; NoData is Python's None.  A datetime is *)
(* [kind, t] with kind "naive" or "aware"; kind "none" is None.            *)
(***************************************************************************)
EXTENDS Integers, Sequences, FiniteSets, TLC

VARIABLES
    plan,                 \* the execution record held by the server
    now,                  \* wall clock, in seconds
    mon,                  \* which poll loop runs: "RealtimeMonitor" | "TimelineMonitor"
    pc,                   \* position of the poll loop / its terminal state
    timeout,              \* the caller's deadline (RealtimeMonitor.monitor's timeout)
    verbose,              \* TimelineMonitor.monitor's verbose
    start_time,           \* time.time() at the start of monitor()
    details,              \* the snapshot of the latest fetch (Optional)
    result,               \* what monitor() returned (Optional)
    last_event_count,     \* RealtimeMonitor.monitor's local
    feed,                 \* events printed by RealtimeMonitor._print_event, in order
    last_step_count,      \* TimelineMonitor.monitor's local
    total_steps_estimate, \* TimelineMonitor.total_steps_estimate
    printed,              \* steps printed by TimelineMonitor._print_step, in order
    progress,             \* the latest progress line of TimelineMonitor
    last_response,        \* the HTTP outcome of the latest fetch
    polls,                \* fetches made so far
    sleeps,               \* sleeps made so far
    poll_elapsed,         \* elapsed time at which the latest fetch was issued
    fetch_time,           \* total time spent inside fetch calls
    snap,                 \* parser harness: the snapshot under test
    parsed,               \* parser harness: what parse_execution_data did with it
    reparsed,             \* parser harness: what a second call did with it
    call,                 \* the offline tools: the latest call, [op, arg, ret]
    processed_steps       \* visualize_timeline's set of printed step states

vars == <<plan, now, mon, pc, timeout, verbose, start_time, details, result,
          last_event_count, feed, last_step_count, total_steps_estimate,
          printed, progress, last_response, polls, sleeps, poll_elapsed,
          fetch_time, snap, parsed, reparsed, call, processed_steps>>

monitorVars == <<plan, now, mon, pc, timeout, verbose, start_time, details,
                 result, last_event_count, feed, last_step_count,
                 total_steps_estimate, printed, progress, last_response,
                 polls, sleeps, poll_elapsed, fetch_time>>

parserVars == <<snap, parsed>>

toolVars == <<reparsed, call, processed_steps>>

-----------------------------------------------------------------------------
(* Bounds of the model *)

\* growth operations (steps, turns, tool calls, end times) the server performs
MaxOps == 3
\* seconds the wall clock runs on past the caller's deadline
MaxOver == 1
\* longest duration of one fetch, in seconds
MaxFetchTime == 1
\* steps of a snapshot handed to the parser harness
MaxParseSteps == 2
\* latest instant a timestamp handed to the time parsers denotes
MaxInstant == 2
\* pieces a result text handed to the classifier is made of
MaxPieces == 2
\* steps of a snapshot handed to the renderers
MaxReportSteps == 1
\* characters by which a text handed to a truncation site misses its limit
MaxAround == 2

\* deadlines a caller passes to monitor(), in seconds
Timeouts == {1, 2}

\* last second of the wall clock
MaxClock == timeout + MaxOver

-----------------------------------------------------------------------------
(* JSON values *)

Absent == [tag |-> "absent", val |-> <<>>]
Null == [tag |-> "null", val |-> <<>>]
Str(s) == [tag |-> "str", val |-> s]

\* the same for the fields that hold one of a few fixed words (status,
\* toolExecuteStatus), whose value is a string
NoWord == [tag |-> "absent", val |-> ""]
NullWord == [tag |-> "null", val |-> ""]

\* dict.get(key, default): the default only replaces a missing key
Get(field, default) == IF field.tag = "absent" THEN Str(default) ELSE field

\* Python truthiness of an Optional[str]: None and "" are falsy
Truthy(v) == v.tag = "str" /\ v.val # <<>>

NoTimeValue == [form |-> "absent", t |-> 0]
ListTime(t) == [form |-> "list", t |-> t]

None == [kind |-> "none", t |-> 0]

NoData == [some |-> FALSE, data |-> [completed |-> FALSE, agentExecutionSequence |-> <<>>]]
Some(d) == [some |-> TRUE, data |-> d]

Max(a, b) == IF a >= b THEN a ELSE b
Min(a, b) == IF a <= b THEN a ELSE b

-----------------------------------------------------------------------------
(* AdvancedTimelineVisualizer *)

\* _parse_time: a list or an ISO string gives a datetime, a 'Z' suffix an
\* offset-aware one; anything else (absent, malformed) gives None
_parse_time(time_value) ==
    CASE time_value.form = "list" -> [kind |-> "naive", t |-> time_value.t]
      [] time_value.form = "iso" -> [kind |-> "naive", t |-> time_value.t]
      [] time_value.form = "isoZ" -> [kind |-> "aware", t |-> time_value.t]
      [] OTHER -> None

\* index of the first x in s, 0 when there is none
RECURSIVE IndexOf(_, _, _)
IndexOf(s, x, i) ==
    IF i > Len(s) THEN 0
    ELSE IF s[i] = x THEN i ELSE IndexOf(s, x, i + 1)

\* str.strip() for the blank character
RECURSIVE LStrip(_)
LStrip(s) == IF s # <<>> /\ Head(s) = " " THEN LStrip(Tail(s)) ELSE s
RECURSIVE RStrip(_)
RStrip(s) ==
    IF s # <<>> /\ s[Len(s)] = " " THEN RStrip(SubSeq(s, 1, Len(s) - 1)) ELSE s
Strip(s) == RStrip(LStrip(s))

\* f"步骤 {step_idx}": two Chinese characters (written B, Z here; every
\* Chinese character of a template is written as one Latin capital), a
\* blank and the index, one digit for the indices of the model
DefaultStepName(step_idx) == <<"B", "Z", " ", ToString(step_idx)>>

\* _extract_step_name returning the text before the first ':'
_extract_step_name_BeforeColon(agent_request, step_idx) ==
    LET nl == IndexOf(agent_request, "\n", 1)
        first_line == IF nl = 0 THEN agent_request
                      ELSE SubSeq(agent_request, 1, nl - 1)
        colon == IndexOf(first_line, ":", 1)
    IN  IF colon # 0
        THEN Strip(SubSeq(first_line, 1, colon - 1))
        ELSE DefaultStepName(step_idx)

\* _extract_step_name on a str: the text after the first ':' of the first line
_extract_step_name(agent_request, step_idx) ==
    LET nl == IndexOf(agent_request, "\n", 1)
        first_line == IF nl = 0 THEN agent_request
                      ELSE SubSeq(agent_request, 1, nl - 1)
        colon == IndexOf(first_line, ":", 1)
    IN  IF colon # 0
        THEN Strip(SubSeq(first_line, colon + 1, Len(first_line)))
        ELSE DefaultStepName(step_idx)

NoDetails ==
    [input |-> Absent, output |-> Absent, tool_name |-> Absent,
     status |-> NoWord, result |-> Absent]

TimelineEvent(event_type, timestamp, n, text, status, dets) ==
    [event_type |-> event_type, timestamp |-> timestamp,
     description |-> [n |-> n, text |-> text], status |-> status,
     details |-> dets]

\* str.lower() over the ASCII letters
Lower(c) ==
    LET UpperCase ==
            <<"A", "B", "C", "D", "E", "F", "G", "H", "I", "J", "K", "L", "M", "N",
           "O", "P", "Q", "R", "S", "T", "U", "V", "W", "X", "Y", "Z">>
        LowerCase ==
            <<"a", "b", "c", "d", "e", "f", "g", "h", "i", "j", "k", "l", "m", "n",
           "o", "p", "q", "r", "s", "t", "u", "v", "w", "x", "y", "z">>
    IN  IF \E i \in 1..Len(UpperCase) : UpperCase[i] = c
        THEN LowerCase[CHOOSE i \in 1..Len(UpperCase) : UpperCase[i] = c]
        ELSE c
LowerText(s) == [i \in 1..Len(s) |-> Lower(s[i])]

\* sub in s
Contains(s, sub) ==
    \E i \in 1..(Len(s) - Len(sub) + 1) : SubSeq(s, i, i + Len(sub) - 1) = sub

T_repair == <<"r", "e", "p", "a", "i", "r">>
T_fix == <<"f", "i", "x">>
T_error == <<"e", "r", "r", "o", "r">>
T_unknown == <<"u", "n", "k", "n", "o", "w", "n">>

\* ToolEvent with the execution status tried before the tool's name
ToolEvent_StatusFirst(tool, start_time_) ==
    LET tool_name == Get(tool.toolName, T_unknown).val
        tool_status == Get(tool.toolExecuteStatus, "unknown")
        tool_result == Get(tool.result, <<>>)
        is_recovery == Contains(LowerText(tool_name), T_repair)
                       \/ Contains(LowerText(tool_name), T_fix)
        is_error_tool == Contains(LowerText(tool_name), T_error)
        event_status ==
            IF tool_status # Str("success") THEN "error"
            ELSE IF is_recovery THEN "recovery"
            ELSE IF is_error_tool THEN "error" ELSE "success"
    IN  TimelineEvent("tool_call", start_time_, 0, tool_name, event_status,
            [NoDetails EXCEPT !.tool_name = Str(tool_name),
                              !.status = tool_status,
                              \* tool_result[:200] if tool_result else ""
                              !.result = IF Truthy(tool_result)
                                         THEN Str(SubSeq(tool_result.val, 1,
                                                  Min(200, Len(tool_result.val))))
                                         ELSE Str(<<>>)])

\* the event of one tool call (lines 226-251); tool_name is a str here
ToolEvent(tool, start_time_) ==
    LET tool_name == Get(tool.toolName, T_unknown).val
        tool_status == Get(tool.toolExecuteStatus, "unknown")
        tool_result == Get(tool.result, <<>>)
        is_recovery == Contains(LowerText(tool_name), T_repair)
                       \/ Contains(LowerText(tool_name), T_fix)
        is_error_tool == Contains(LowerText(tool_name), T_error)
        event_status ==
            IF is_recovery THEN "recovery"
            ELSE IF is_error_tool THEN "error"
            ELSE IF tool_status = Str("success") THEN "success" ELSE "error"
    IN  TimelineEvent("tool_call", start_time_, 0, tool_name, event_status,
            [NoDetails EXCEPT !.tool_name = Str(tool_name),
                              !.status = tool_status,
                              \* tool_result[:200] if tool_result else ""
                              !.result = IF Truthy(tool_result)
                                         THEN Str(SubSeq(tool_result.val, 1,
                                                  Min(200, Len(tool_result.val))))
                                         ELSE Str(<<>>)])

RECURSIVE ToolEvents(_, _)
ToolEvents(tool_calls, start_time_) ==
    IF tool_calls = <<>> THEN <<>>
    ELSE <<ToolEvent(Head(tool_calls), start_time_)>>
         \o ToolEvents(Tail(tool_calls), start_time_)

\* the events of the turns from turn_idx on (lines 207-251)
RECURSIVE TurnEvents(_, _, _)
TurnEvents(think_act_steps, turn_idx, start_time_) ==
    IF turn_idx > Len(think_act_steps) THEN <<>>
    ELSE LET ta == think_act_steps[turn_idx]
             think_input == Get(ta.thinkInput, <<>>)
             think_output == Get(ta.thinkOutput, <<>>)
             think == IF Truthy(think_input) \/ Truthy(think_output)
                      THEN <<TimelineEvent("think", start_time_, turn_idx, <<>>,
                                 "info",
                                 [NoDetails EXCEPT !.input = think_input,
                                                   !.output = think_output])>>
                      ELSE <<>>
         IN  think \o ToolEvents(ta.actToolInfoList, start_time_)
             \o TurnEvents(think_act_steps, turn_idx + 1, start_time_)

\* the events of one step, in emission order (lines 190-261)
StepEvents(step, n) ==
    LET step_name == _extract_step_name(Get(step.agentRequest, <<>>).val, n)
        start_time_ == _parse_time(step.startTime)
        end_time == _parse_time(step.endTime)
        status == Get(step.status, "unknown")
    IN  (IF start_time_ # None
         THEN <<TimelineEvent("step_start", start_time_, n, step_name,
                    "running", NoDetails)>>
         ELSE <<>>)
        \o TurnEvents(step.thinkActSteps, 1, start_time_)
        \o (IF end_time # None
            THEN <<TimelineEvent("step_end", end_time, n, <<>>,
                       IF status = Str("FINISHED") THEN "success" ELSE "error",
                       NoDetails)>>
            ELSE <<>>)

RECURSIVE EmittedEvents(_, _)
EmittedEvents(agent_sequence, step_idx) ==
    IF step_idx > Len(agent_sequence) THEN <<>>
    ELSE StepEvents(agent_sequence[step_idx], step_idx)
         \o EmittedEvents(agent_sequence, step_idx + 1)

\* e.timestamp or datetime.min
SortKey(e) == IF e.timestamp = None THEN -1 ELSE e.timestamp.t

\* an unstable sort: e goes before the elements whose key equals its own
RECURSIVE InsertSorted_BeforeEqual(_, _)
InsertSorted_BeforeEqual(sorted, e) ==
    IF sorted = <<>> THEN <<e>>
    ELSE IF SortKey(sorted[Len(sorted)]) < SortKey(e) THEN Append(sorted, e)
    ELSE Append(InsertSorted_BeforeEqual(SubSeq(sorted, 1, Len(sorted) - 1), e),
                sorted[Len(sorted)])

\* list.sort is stable: insert e after every element whose key is <= its own
RECURSIVE InsertSorted(_, _)
InsertSorted(sorted, e) ==
    IF sorted = <<>> THEN <<e>>
    ELSE IF SortKey(sorted[Len(sorted)]) <= SortKey(e) THEN Append(sorted, e)
    ELSE Append(InsertSorted(SubSeq(sorted, 1, Len(sorted) - 1), e),
                sorted[Len(sorted)])

RECURSIVE SortByTime(_, _)
SortByTime(events, done) ==
    IF events = <<>> THEN done
    ELSE SortByTime(Tail(events), InsertSorted(done, Head(events)))

\* None.split / None.lower: a null agentRequest or toolName raises AttributeError
RaisesAttributeError(agent_sequence) ==
    \E i \in 1..Len(agent_sequence) :
        \/ agent_sequence[i].agentRequest.tag = "null"
        \/ \E j \in 1..Len(agent_sequence[i].thinkActSteps) :
             \E k \in 1..Len(agent_sequence[i].thinkActSteps[j].actToolInfoList) :
                agent_sequence[i].thinkActSteps[j].actToolInfoList[k].toolName.tag
                    = "null"

\* the sort compares offset-aware with offset-naive keys (datetime.min is
\* naive): TypeError
RaisesTypeError(events) ==
    /\ \E i \in 1..Len(events) : events[i].timestamp.kind = "aware"
    /\ \E i \in 1..Len(events) : events[i].timestamp.kind # "aware"

\* datetime(*time_value[:6]) with a number that does not fit a C long raises
\* OverflowError, which _parse_time's except clause does not name
ParseTimeRaises(time_value) == time_value.form = "overflow"

\* parse_execution_data: the sorted events, or the exception it raised
parse_execution_data(execution_data) ==
    LET agent_sequence == execution_data.agentExecutionSequence
        RaisesOverflowError ==
            \E i \in 1..Len(agent_sequence) :
                \/ ParseTimeRaises(agent_sequence[i].startTime)
                \/ ParseTimeRaises(agent_sequence[i].endTime)
    IN  IF RaisesOverflowError
        THEN [raised |-> "OverflowError", events |-> <<>>]
        ELSE IF RaisesAttributeError(agent_sequence)
        THEN [raised |-> "AttributeError", events |-> <<>>]
        ELSE LET events == EmittedEvents(agent_sequence, 1)
             IN  IF RaisesTypeError(events)
                 THEN [raised |-> "TypeError", events |-> <<>>]
                 ELSE [raised |-> "no", events |-> SortByTime(events, <<>>)]

-----------------------------------------------------------------------------
(* The statistics the Markdown and HTML reports show (lines 340-344,        *)
(* 422-426): counts over the event list.                                    *)

\* len([e for e in events if <test>]), the tests given as one flag per event
CountIf(flags) == Cardinality({i \in DOMAIN flags : flags[i]})

Statistics(events) ==
    LET n == Len(events)
    IN  [total_steps |->
             CountIf([i \in 1..n |-> events[i].event_type = "step_start"]),
         total_thinks |->
             CountIf([i \in 1..n |-> events[i].event_type = "think"]),
         total_tools |->
             CountIf([i \in 1..n |-> events[i].event_type = "tool_call"]),
         errors |-> CountIf([i \in 1..n |-> events[i].status = "error"]),
         recoveries |->
             CountIf([i \in 1..n |-> events[i].status = "recovery"])]

-----------------------------------------------------------------------------
(* The execution record on the server.  Steps are only appended; an existing *)
(* step only gets content filled in: an end time, a turn, a tool call.       *)

T_analyzing == <<"a", "n">>
T_tool == <<"f", "s">>

NewStep(t) ==
    [agentRequest |-> Absent, startTime |-> ListTime(t),
     endTime |-> NoTimeValue, status |-> Str("RUNNING"), thinkActSteps |-> <<>>]
NewTurn ==
    [thinkInput |-> Absent, thinkOutput |-> Str(T_analyzing),
     actToolInfoList |-> <<>>]
NewTool ==
    [toolName |-> Str(T_tool), toolExecuteStatus |-> Str("success"),
     result |-> Str(<<>>)]

RECURSIVE SumOver(_, _)
SumOver(f, n) == IF n = 0 THEN 0 ELSE f[n] + SumOver(f, n - 1)

\* growth operations a record is the result of
StepSize(step) ==
    1 + (IF step.endTime = NoTimeValue THEN 0 ELSE 1) + Len(step.thinkActSteps)
    + SumOver([j \in 1..Len(step.thinkActSteps) |->
                  Len(step.thinkActSteps[j].actToolInfoList)],
              Len(step.thinkActSteps))
PlanSize(p) ==
    SumOver([i \in 1..Len(p.agentExecutionSequence) |->
                StepSize(p.agentExecutionSequence[i])],
            Len(p.agentExecutionSequence))

Running == pc \in {"loop", "sleep"}
CanGrow == ~plan.completed /\ PlanSize(plan) < MaxOps /\ Running

SetSteps(seq) == [plan EXCEPT !.agentExecutionSequence = seq]

AppendStep ==
    /\ CanGrow
    /\ plan' = SetSteps(Append(plan.agentExecutionSequence, NewStep(now)))
    /\ UNCHANGED toolVars
    /\ UNCHANGED <<now, mon, pc, timeout, verbose, start_time, details, result,
                   last_event_count, feed, last_step_count,
                   total_steps_estimate, printed, progress, last_response,
                   polls, sleeps, poll_elapsed, fetch_time, snap, parsed>>

EndStep ==
    /\ CanGrow
    /\ \E i \in 1..Len(plan.agentExecutionSequence) :
        /\ plan.agentExecutionSequence[i].endTime = NoTimeValue
        /\ plan' = SetSteps([plan.agentExecutionSequence EXCEPT
                                ![i].endTime = ListTime(now),
                                ![i].status = Str("FINISHED")])
    /\ UNCHANGED toolVars
    /\ UNCHANGED <<now, mon, pc, timeout, verbose, start_time, details, result,
                   last_event_count, feed, last_step_count,
                   total_steps_estimate, printed, progress, last_response,
                   polls, sleeps, poll_elapsed, fetch_time, snap, parsed>>

AddTurn ==
    /\ CanGrow
    /\ \E i \in 1..Len(plan.agentExecutionSequence) :
        plan' = SetSteps([plan.agentExecutionSequence EXCEPT
                    ![i].thinkActSteps = Append(@, NewTurn)])
    /\ UNCHANGED toolVars
    /\ UNCHANGED <<now, mon, pc, timeout, verbose, start_time, details, result,
                   last_event_count, feed, last_step_count,
                   total_steps_estimate, printed, progress, last_response,
                   polls, sleeps, poll_elapsed, fetch_time, snap, parsed>>

AddTool ==
    /\ CanGrow
    /\ \E i \in 1..Len(plan.agentExecutionSequence) :
        LET turns == plan.agentExecutionSequence[i].thinkActSteps
        IN  /\ turns # <<>>
            /\ plan' = SetSteps([plan.agentExecutionSequence EXCEPT
                        ![i].thinkActSteps[Len(turns)].actToolInfoList =
                            Append(@, NewTool)])
    /\ UNCHANGED toolVars
    /\ UNCHANGED <<now, mon, pc, timeout, verbose, start_time, details, result,
                   last_event_count, feed, last_step_count,
                   total_steps_estimate, printed, progress, last_response,
                   polls, sleeps, poll_elapsed, fetch_time, snap, parsed>>

Complete ==
    /\ ~plan.completed
    /\ Running
    /\ plan' = [plan EXCEPT !.completed = TRUE]
    /\ UNCHANGED toolVars
    /\ UNCHANGED <<now, mon, pc, timeout, verbose, start_time, details, result,
                   last_event_count, feed, last_step_count,
                   total_steps_estimate, printed, progress, last_response,
                   polls, sleeps, poll_elapsed, fetch_time, snap, parsed>>

-----------------------------------------------------------------------------
(* The HTTP clients.  A response is "200" (with the record as its body),    *)
(* "404", "500", or "error" (requests.RequestException: connection refused, *)
(* request timeout).                                                         *)

Responses == {"200", "404", "500", "error"}

\* advanced_timeline_visualizer.LynxeClient.get_execution_details:
\* the body on 200, None on anything else
RT_get_execution_details(response, body) ==
    IF response = "200" THEN [raised |-> FALSE, value |-> Some(body)]
    ELSE [raised |-> FALSE, value |-> NoData]

\* timeline_monitor.LynxeClient.get_execution_details: None on 404, the
\* body on 200, RuntimeError on anything else
TM_get_execution_details(response, body) ==
    CASE response = "404" -> [raised |-> FALSE, value |-> NoData]
      [] response = "200" -> [raised |-> FALSE, value |-> Some(body)]
      [] OTHER -> [raised |-> TRUE, value |-> NoData]

-----------------------------------------------------------------------------
(* RealtimeMonitor.monitor *)

\* the seconds time.sleep(1) takes
RT_SLEEP == 1

\* a loop condition that lets the iteration at the deadline itself run
RT_LoopCond_Inclusive(elapsed, timeout_) == elapsed <= timeout_

\* the loop condition: time.time() - start_time < timeout
RT_LoopCond(elapsed, timeout_) == elapsed < timeout_

\* events[last_event_count:]
NewEvents(events, last) == SubSeq(events, last + 1, Len(events))

RT_Start ==
    /\ mon = "RealtimeMonitor" /\ pc = "init"
    /\ start_time' = now
    /\ last_event_count' = 0
    /\ pc' = "loop"
    /\ UNCHANGED toolVars
    /\ UNCHANGED <<plan, now, mon, timeout, verbose, details, result, feed,
                   last_step_count, total_steps_estimate, printed, progress,
                   last_response, polls, sleeps, poll_elapsed, fetch_time,
                   snap, parsed>>

\* the loop left because its condition is false (lines 556-557)
RT_TimedOut ==
    /\ mon = "RealtimeMonitor" /\ pc = "loop"
    /\ ~RT_LoopCond(now - start_time, timeout)
    /\ pc' = "TimedOut"
    /\ result' = NoData
    /\ UNCHANGED toolVars
    /\ UNCHANGED <<plan, now, mon, timeout, verbose, start_time, details,
                   last_event_count, feed, last_step_count,
                   total_steps_estimate, printed, progress, last_response,
                   polls, sleeps, poll_elapsed, fetch_time, snap, parsed>>

\* one iteration up to the sleep (lines 532-553)
RT_Poll ==
    /\ mon = "RealtimeMonitor" /\ pc = "loop"
    /\ RT_LoopCond(now - start_time, timeout)
    /\ \E response \in Responses, d \in 0..MaxFetchTime :
        LET got == RT_get_execution_details(response, plan).value
            out == parse_execution_data(got.data)
            events == out.events
            completed == got.data.completed
        IN  /\ now + d <= MaxClock
            /\ now' = now + d
            /\ polls' = polls + 1
            /\ poll_elapsed' = now - start_time
            /\ fetch_time' = fetch_time + d
            /\ last_response' = response
            /\ details' = got
            /\ IF ~got.some
               THEN /\ pc' = "Failed"
                    /\ result' = NoData
                    /\ UNCHANGED <<last_event_count, feed>>
               ELSE IF out.raised # "no"
               THEN /\ pc' = out.raised
                    /\ UNCHANGED <<result, last_event_count, feed>>
               ELSE /\ IF Len(events) > last_event_count
                       THEN /\ feed' = feed \o NewEvents(events, last_event_count)
                            /\ last_event_count' = Len(events)
                       ELSE UNCHANGED <<last_event_count, feed>>
                    /\ IF completed
                       THEN pc' = "Completed" /\ result' = got
                       ELSE pc' = "sleep" /\ UNCHANGED result
    /\ UNCHANGED toolVars
    /\ UNCHANGED <<plan, mon, timeout, verbose, start_time, last_step_count,
                   total_steps_estimate, printed, progress, sleeps, snap,
                   parsed>>

RT_Sleep ==
    /\ mon = "RealtimeMonitor" /\ pc = "sleep"
    /\ now + RT_SLEEP <= MaxClock
    /\ now' = now + RT_SLEEP
    /\ sleeps' = sleeps + 1
    /\ pc' = "loop"
    /\ UNCHANGED toolVars
    /\ UNCHANGED <<plan, mon, timeout, verbose, start_time, details, result,
                   last_event_count, feed, last_step_count,
                   total_steps_estimate, printed, progress, last_response,
                   polls, poll_elapsed, fetch_time, snap, parsed>>

\* Ctrl+C while the loop fetches or sleeps: monitor() has no handler, the
\* KeyboardInterrupt leaves it without a return value
RT_Interrupt ==
    /\ mon = "RealtimeMonitor" /\ pc \in {"loop", "sleep"}
    /\ pc' = "KeyboardInterrupt"
    /\ UNCHANGED toolVars
    /\ UNCHANGED <<plan, now, mon, timeout, verbose, start_time, details,
                   result, last_event_count, feed, last_step_count,
                   total_steps_estimate, printed, progress, last_response,
                   polls, sleeps, poll_elapsed, fetch_time, snap, parsed>>

-----------------------------------------------------------------------------
(* TimelineMonitor.monitor *)

\* the default poll_interval of TimelineMonitor.__init__, in seconds
TM_POLL_INTERVAL == 1

NoProgress ==
    [shown |-> FALSE, percent |-> 0, steps |-> 0, prior |-> 0,
     completed |-> FALSE]

\* _get_progress_info: the estimate it leaves in self.total_steps_estimate
\* and the percentage of the line it returns
_get_progress_info(estimate, current_step_count) ==
    LET estimate1 == IF estimate = 0 /\ current_step_count > 0
                     THEN Max(current_step_count, 3)
                     ELSE estimate
        total_steps == Max(estimate1, current_step_count)
    IN  [estimate |-> estimate1,
         percent |-> IF total_steps > 0
                     THEN Min(100, (current_step_count * 100) \div total_steps)
                     ELSE 0]

\* the estimate update of monitor() that precedes the progress line
\* (lines 194-195)
UpdateEstimate(estimate, current_step_count) ==
    IF current_step_count > estimate THEN current_step_count ELSE estimate

\* a poll that prints every step of the snapshot again
PrintedSteps_FromStart(agent_sequence, last, count) ==
    [k \in 1..count |->
        [index |-> k, total |-> count, step |-> agent_sequence[k]]]

\* the _print_step calls of one poll: steps last_step_count+1 .. count
PrintedSteps(agent_sequence, last, count) ==
    [k \in 1..(count - last) |->
        [index |-> last + k, total |-> count, step |-> agent_sequence[last + k]]]

TM_Start ==
    /\ mon = "TimelineMonitor" /\ pc = "init"
    /\ start_time' = now
    /\ last_step_count' = 0
    /\ pc' = "loop"
    /\ UNCHANGED toolVars
    /\ UNCHANGED <<plan, now, mon, timeout, verbose, details, result,
                   last_event_count, feed, total_steps_estimate, printed,
                   progress, last_response, polls, sleeps, poll_elapsed,
                   fetch_time, snap, parsed, reparsed, call>>

\* one iteration up to the sleep (lines 182-223)
TM_Poll ==
    /\ mon = "TimelineMonitor" /\ pc = "loop"
    /\ \E response \in Responses, d \in 0..MaxFetchTime :
        LET fetched == TM_get_execution_details(response, plan)
            got == fetched.value
            agent_sequence == got.data.agentExecutionSequence
            current_step_count == Len(agent_sequence)
            estimate1 == UpdateEstimate(total_steps_estimate, current_step_count)
            info == _get_progress_info(estimate1, current_step_count)
        IN  /\ now + d <= MaxClock
            /\ now' = now + d
            /\ polls' = polls + 1
            /\ poll_elapsed' = now - start_time
            /\ fetch_time' = fetch_time + d
            /\ last_response' = response
            /\ IF fetched.raised
               THEN /\ pc' = "RuntimeError"
                    /\ UNCHANGED <<details, result, last_step_count,
                                   total_steps_estimate, printed, progress>>
               ELSE IF ~got.some
               THEN /\ pc' = "Failed"
                    /\ result' = NoData
                    /\ details' = got
                    /\ UNCHANGED <<last_step_count, total_steps_estimate,
                                   printed, progress>>
               ELSE /\ details' = got
                    /\ IF verbose
                       THEN /\ total_steps_estimate' = info.estimate
                            /\ progress' =
                                 [shown |-> TRUE, percent |-> info.percent,
                                  steps |-> current_step_count,
                                  prior |-> total_steps_estimate,
                                  completed |-> got.data.completed]
                       ELSE /\ total_steps_estimate' = estimate1
                            /\ UNCHANGED progress
                    /\ IF current_step_count > last_step_count
                       THEN /\ printed' =
                                 IF verbose
                                 THEN printed \o PrintedSteps(agent_sequence,
                                          last_step_count, current_step_count)
                                 ELSE printed
                            /\ last_step_count' = current_step_count
                       ELSE UNCHANGED <<printed, last_step_count>>
                    /\ IF got.data.completed
                       THEN pc' = "Completed" /\ result' = got
                       ELSE pc' = "sleep" /\ UNCHANGED result
    /\ UNCHANGED toolVars
    /\ UNCHANGED <<plan, mon, timeout, verbose, start_time, last_event_count,
                   feed, sleeps, snap, parsed>>

TM_Sleep ==
    /\ mon = "TimelineMonitor" /\ pc = "sleep"
    /\ now + TM_POLL_INTERVAL <= MaxClock
    /\ now' = now + TM_POLL_INTERVAL
    /\ sleeps' = sleeps + 1
    /\ pc' = "loop"
    /\ UNCHANGED toolVars
    /\ UNCHANGED <<plan, mon, timeout, verbose, start_time, details, result,
                   last_event_count, feed, last_step_count,
                   total_steps_estimate, printed, progress, last_response,
                   polls, poll_elapsed, fetch_time, snap, parsed>>

\* Ctrl+C while the loop fetches or sleeps: the handler of lines 228-232
\* returns None
TM_Interrupt ==
    /\ mon = "TimelineMonitor" /\ pc \in {"loop", "sleep"}
    /\ pc' = "Cancelled"
    /\ result' = NoData
    /\ UNCHANGED toolVars
    /\ UNCHANGED <<plan, now, mon, timeout, verbose, start_time, details,
                   last_event_count, feed, last_step_count,
                   total_steps_estimate, printed, progress, last_response,
                   polls, sleeps, poll_elapsed, fetch_time, snap, parsed>>

-----------------------------------------------------------------------------
(* The monitors' specification *)

NoParse == [done |-> FALSE, raised |-> "no", events |-> <<>>]
NoCall == [op |-> "none"]
EmptyPlan == [completed |-> FALSE, agentExecutionSequence |-> <<>>]

Init ==
    /\ plan = EmptyPlan
    /\ now = 0
    /\ mon \in {"RealtimeMonitor", "TimelineMonitor"}
    /\ pc = "init"
    /\ timeout \in Timeouts
    /\ verbose \in IF mon = "TimelineMonitor" THEN BOOLEAN ELSE {TRUE}
    /\ start_time = 0
    /\ details = NoData
    /\ result = NoData
    /\ last_event_count = 0
    /\ feed = <<>>
    /\ last_step_count = 0
    /\ total_steps_estimate = 0
    /\ printed = <<>>
    /\ progress = NoProgress
    /\ last_response = "none"
    /\ polls = 0
    /\ sleeps = 0
    /\ poll_elapsed = 0
    /\ fetch_time = 0
    /\ snap = EmptyPlan
    /\ parsed = NoParse
    /\ reparsed = NoParse
    /\ call = NoCall
    /\ processed_steps = {}

Next ==
    \/ AppendStep \/ EndStep \/ AddTurn \/ AddTool \/ Complete
    \/ RT_Start \/ RT_Poll \/ RT_TimedOut \/ RT_Sleep \/ RT_Interrupt
    \/ TM_Start \/ TM_Poll \/ TM_Sleep \/ TM_Interrupt

Spec == Init /\ [][Next]_vars

-----------------------------------------------------------------------------
(* RealtimeMonitor.monitor against the scenario's deadline of 5 seconds:   *)
(* the server appends steps and may complete.                              *)

TimingInit ==
    /\ plan = EmptyPlan
    /\ now = 0
    /\ mon = "RealtimeMonitor"
    /\ pc = "init"
    /\ timeout = 5
    /\ verbose = TRUE
    /\ start_time = 0
    /\ details = NoData
    /\ result = NoData
    /\ last_event_count = 0
    /\ feed = <<>>
    /\ last_step_count = 0
    /\ total_steps_estimate = 0
    /\ printed = <<>>
    /\ progress = NoProgress
    /\ last_response = "none"
    /\ polls = 0
    /\ sleeps = 0
    /\ poll_elapsed = 0
    /\ fetch_time = 0
    /\ snap = EmptyPlan
    /\ parsed = NoParse
    /\ reparsed = NoParse
    /\ call = NoCall
    /\ processed_steps = {}

TimingNext ==
    \/ AppendStep \/ Complete
    \/ RT_Start \/ RT_Poll \/ RT_TimedOut \/ RT_Sleep \/ RT_Interrupt

TimingSpec == TimingInit /\ [][TimingNext]_vars

-----------------------------------------------------------------------------
(* The parser on its own: parse_execution_data applied to one snapshot     *)
(* whose optional fields may be missing, null or malformed.                *)

T_request == <<"S", ":", " ", "a">>
T_goal == <<"g">>

Turn(think_input, think_output, tool_calls) ==
    [thinkInput |-> think_input, thinkOutput |-> think_output,
     actToolInfoList |-> tool_calls]
Tool(tool_name, tool_status, tool_result) ==
    [toolName |-> tool_name, toolExecuteStatus |-> tool_status,
     result |-> tool_result]
Step(agent_request, start, end, status, turns) ==
    [agentRequest |-> agent_request, startTime |-> start, endTime |-> end,
     status |-> status, thinkActSteps |-> turns]

ThinkTurn == Turn(Str(T_goal), Str(T_analyzing), <<>>)

\* the steps a snapshot under test is made of
ParseSteps ==
    { Step(Str(T_request), ListTime(1), NoTimeValue, Str("RUNNING"),
           <<ThinkTurn>>),
      Step(Absent, ListTime(1), ListTime(2), Str("FINISHED"), <<>>),
      Step(Null, ListTime(1), NoTimeValue, Str("RUNNING"), <<>>),
      Step(Str(T_goal), [form |-> "isoZ", t |-> 1], NoTimeValue, NoWord,
           <<ThinkTurn>>),
      Step(Str(T_goal), [form |-> "iso", t |-> 2], NoTimeValue, NullWord,
           <<ThinkTurn>>),
      Step(Absent, [form |-> "bad", t |-> 0], [form |-> "bad", t |-> 0],
           Str("RUNNING"), <<ThinkTurn>>),
      Step(Absent, NoTimeValue, NoTimeValue, Str("RUNNING"),
           <<Turn(Null, Null, <<Tool(Absent, NoWord, Null)>>)>>),
      Step(Absent, ListTime(1), NoTimeValue, Str("RUNNING"),
           <<Turn(Absent, Absent,
                  <<Tool(Null, Str("success"), Str(T_goal))>>)>>),
      Step(Absent, ListTime(2), NoTimeValue, Str("RUNNING"),
           <<Turn(Absent, Str(T_analyzing),
                  <<Tool(Str(T_tool), Str("success"), Str(T_goal))>>)>>) }

RECURSIVE SeqsUpTo(_, _)
SeqsUpTo(S, n) ==
    IF n = 0 THEN {<<>>}
    ELSE LET shorter == SeqsUpTo(S, n - 1)
         IN  shorter \cup {Append(q, x) : q \in shorter, x \in S}

ParseInputs ==
    {[completed |-> FALSE, agentExecutionSequence |-> q] :
        q \in SeqsUpTo(ParseSteps, MaxParseSteps)}

\* one call of parse_execution_data(snap)
Parse ==
    /\ ~parsed.done
    /\ LET out == parse_execution_data(snap)
       IN  parsed' = [done |-> TRUE, raised |-> out.raised,
                      events |-> out.events]
    /\ UNCHANGED toolVars
    /\ UNCHANGED <<plan, now, mon, pc, timeout, verbose, start_time, details,
                   result, last_event_count, feed, last_step_count,
                   total_steps_estimate, printed, progress, last_response,
                   polls, sleeps, poll_elapsed, fetch_time, snap>>

\* events = [] (line 187): the list a call fills starts empty, whatever an
\* earlier call returned
NewList_Kept(held) == held

NewList(held) == <<>>

\* a second call of parse_execution_data(snap) on the same visualizer
ParseAgain ==
    /\ parsed.done
    /\ ~reparsed.done
    /\ LET out == parse_execution_data(snap)
       IN  reparsed' = [done |-> TRUE, raised |-> out.raised,
                        events |-> IF out.raised = "no"
                                   THEN NewList(parsed.events) \o out.events
                                   ELSE <<>>]
    /\ UNCHANGED <<monitorVars, snap, parsed, call, processed_steps>>

ParserInit ==
    /\ plan = EmptyPlan
    /\ now = 0
    /\ mon = "RealtimeMonitor"
    /\ pc = "init"
    /\ timeout = 1
    /\ verbose = TRUE
    /\ start_time = 0
    /\ details = NoData
    /\ result = NoData
    /\ last_event_count = 0
    /\ feed = <<>>
    /\ last_step_count = 0
    /\ total_steps_estimate = 0
    /\ printed = <<>>
    /\ progress = NoProgress
    /\ last_response = "none"
    /\ polls = 0
    /\ sleeps = 0
    /\ poll_elapsed = 0
    /\ fetch_time = 0
    /\ snap \in ParseInputs
    /\ parsed = NoParse
    /\ reparsed = NoParse
    /\ call = NoCall
    /\ processed_steps = {}

ParserNext == Parse \/ ParseAgain

ParserSpec == ParserInit /\ [][ParserNext]_vars

-----------------------------------------------------------------------------
(* The offline tools, each applied once to an input: the time parsers, the  *)
(* error analyzer, the renderers, the truncation sites.                     *)

\* TimelineVisualizer._parse_time and TimelineMonitor._parse_time: only a
\* string is parsed; a list has no replace() and the AttributeError is caught
TV_parse_time(time_str) ==
    CASE time_str.form = "iso" -> [kind |-> "naive", t |-> time_str.t]
      [] time_str.form = "isoZ" -> [kind |-> "aware", t |-> time_str.t]
      [] OTHER -> None

\* the timestamp values of a record: missing or empty, a numeric sequence
\* (well-formed, malformed, out of range), an ISO string without and with
\* 'Z', a malformed string, a value of another type
TimeValues ==
    {NoTimeValue, [form |-> "badlist", t |-> 0], [form |-> "overflow", t |-> 0],
     [form |-> "bad", t |-> 0], [form |-> "other", t |-> 0]}
    \cup {[form |-> f, t |-> t] : f \in {"list", "iso", "isoZ"},
                                  t \in 1..MaxInstant}

\* a < b on two datetimes raises TypeError when exactly one carries an offset
Comparable(a, b) == a.kind = b.kind

\* two timestamps of one record parsed by the same class; each result is
\* what one call of cls._parse_time(time_value) does
Call_parse_time ==
    /\ call.op = "none"
    /\ \E cls \in {"AdvancedTimelineVisualizer", "TimelineVisualizer"},
          a \in TimeValues, b \in TimeValues :
          LET ParseTimeCall(time_value) ==
                  IF cls = "AdvancedTimelineVisualizer"
                  THEN IF ParseTimeRaises(time_value)
                       THEN [raised |-> "OverflowError", value |-> None]
                       ELSE [raised |-> "no",
                             value |-> _parse_time(time_value)]
                  ELSE [raised |-> "no", value |-> TV_parse_time(time_value)]
          IN  call' = [op |-> "_parse_time",
                       arg |-> [cls |-> cls, first |-> a, second |-> b],
                       ret |-> [first |-> ParseTimeCall(a),
                                second |-> ParseTimeCall(b)]]
    /\ UNCHANGED <<monitorVars, parserVars, reparsed, processed_steps>>

-----------------------------------------------------------------------------
(* ErrorAnalyzer *)

T_file_not_found == <<"f", "i", "l", "e", " ", "n", "o", "t", " ", "f", "o", "u", "n", "d">>
T_no_such_file == <<"n", "o", " ", "s", "u", "c", "h", " ", "f", "i", "l", "e">>
T_validation == <<"v", "a", "l", "i", "d", "a", "t", "i", "o", "n">>
T_invalid == <<"i", "n", "v", "a", "l", "i", "d">>
T_timeout == <<"t", "i", "m", "e", "o", "u", "t">>
T_permission == <<"p", "e", "r", "m", "i", "s", "s", "i", "o", "n">>

\* _classify_error with the timeout rule tried first
_classify_error_TimeoutFirst(error_message) ==
    LET error_msg_lower == LowerText(error_message)
    IN  IF Contains(error_msg_lower, T_timeout) THEN "timeout"
        ELSE IF Contains(error_msg_lower, T_file_not_found)
                \/ Contains(error_msg_lower, T_no_such_file)
        THEN "file_not_found"
        ELSE IF Contains(error_msg_lower, T_validation)
                \/ Contains(error_msg_lower, T_invalid)
        THEN "validation_error"
        ELSE IF Contains(error_msg_lower, T_permission) THEN "permission_error"
        ELSE "unknown_error"

\* _classify_error on a str
_classify_error(error_message) ==
    LET error_msg_lower == LowerText(error_message)
    IN  IF Contains(error_msg_lower, T_file_not_found)
           \/ Contains(error_msg_lower, T_no_such_file)
        THEN "file_not_found"
        ELSE IF Contains(error_msg_lower, T_validation)
                \/ Contains(error_msg_lower, T_invalid)
        THEN "validation_error"
        ELSE IF Contains(error_msg_lower, T_timeout) THEN "timeout"
        ELSE IF Contains(error_msg_lower, T_permission) THEN "permission_error"
        ELSE "unknown_error"

\* _suggest_fix: the dictionary of suggestions (the texts are in Chinese in
\* the source; each is named here by what it says) and its default
_suggest_fix(error_type) ==
    CASE error_type = "file_not_found" -> "check the file path / that the file exists"
      [] error_type = "validation_error" -> "check the format of the input data"
      [] error_type = "timeout" -> "raise the timeout / check the network"
      [] error_type = "permission_error" -> "check the file permissions"
      [] OTHER -> "check the error details"

\* result[:200] (line 743)
MESSAGE_LIMIT == 200

_analyze_error(tool_call, step) ==
    LET tool_name == Get(tool_call.toolName, <<>>)
        tool_result == Get(tool_call.result, <<>>)
        error_type == _classify_error(tool_result.val)
    IN  [step |-> step, tool |-> tool_name, error_type |-> error_type,
         \* result[:200] if result else ""
         message |-> SubSeq(tool_result.val, 1,
                            Min(MESSAGE_LIMIT, Len(tool_result.val))),
         suggested_fix |-> _suggest_fix(error_type)]

\* the tool calls of a snapshot in step, turn, tool-call order, each with the
\* 1-based position of its step (the three loops of lines 716-720)
RECURSIVE TurnToolCalls(_, _)
TurnToolCalls(think_act_steps, step) ==
    IF think_act_steps = <<>> THEN <<>>
    ELSE [k \in 1..Len(Head(think_act_steps).actToolInfoList) |->
             [step |-> step, tc |-> Head(think_act_steps).actToolInfoList[k]]]
         \o TurnToolCalls(Tail(think_act_steps), step)

RECURSIVE ToolCallsOf(_, _)
ToolCallsOf(agent_sequence, step_idx) ==
    IF step_idx > Len(agent_sequence) THEN <<>>
    ELSE TurnToolCalls(agent_sequence[step_idx].thinkActSteps, step_idx)
         \o ToolCallsOf(agent_sequence, step_idx + 1)

\* exec_status != "success" or "error" in tool_name.lower() (line 725); the
\* second operand is evaluated only when the status is "success"
Qualifies(tc) ==
    \/ Get(tc.toolExecuteStatus, "") # Str("success")
    \/ Contains(LowerText(Get(tc.toolName, <<>>).val), T_error)

\* analyze: the entries, or the exception it raised.  None.lower() raises
\* AttributeError: at line 725 for a null tool name (evaluated only when the
\* status is "success"), in _classify_error for a null result
analyze(execution_data) ==
    LET calls == ToolCallsOf(execution_data.agentExecutionSequence, 1)
        Reported(c) == Qualifies(c.tc)
        reported == SelectSeq(calls, Reported)
        QualifiesRaises(tc) ==
            /\ Get(tc.toolExecuteStatus, "") = Str("success")
            /\ tc.toolName.tag = "null"
        AnalyzeErrorRaises(tc) == tc.result.tag = "null"
    IN  IF \E i \in 1..Len(calls) :
              \/ QualifiesRaises(calls[i].tc)
              \/ Qualifies(calls[i].tc) /\ AnalyzeErrorRaises(calls[i].tc)
        THEN [raised |-> "AttributeError", errors |-> <<>>]
        ELSE [raised |-> "no",
              errors |-> [i \in 1..Len(reported) |->
                             _analyze_error(reported[i].tc, reported[i].step)]]

\* the steps a snapshot handed to the analyzer is made of
AnalyzeSteps ==
    LET OkTool == Tool(Str(T_tool), Str("success"), Str(T_goal))
        FailedTool == Tool(Str(T_tool), Str("failed"), Str(T_timeout))
        NoStatusTool == Tool(Absent, NoWord, Absent)
        ErrorReportTool == Tool(Str(<<"E", "r", "r", "o", "r">>),
                                Str("success"), Str(T_file_not_found))
        NullResultTool == Tool(Str(T_tool), Str("failed"), Null)
        NullNameTool == Tool(Null, Str("success"), Str(T_goal))
        ToolStep(turns) == Step(Absent, NoTimeValue, NoTimeValue, NoWord, turns)
        ActTurn(tool_calls) == Turn(Absent, Absent, tool_calls)
    IN  { ToolStep(<<>>),
          ToolStep(<<ActTurn(<<OkTool>>)>>),
          ToolStep(<<ActTurn(<<OkTool, FailedTool>>)>>),
          ToolStep(<<ActTurn(<<ErrorReportTool>>), ActTurn(<<OkTool>>)>>),
          ToolStep(<<ActTurn(<<NoStatusTool>>)>>),
          ToolStep(<<ActTurn(<<NullResultTool>>)>>),
          ToolStep(<<ActTurn(<<NullNameTool>>)>>) }

AnalyzeInputs ==
    {[completed |-> TRUE, agentExecutionSequence |-> q] :
        q \in SeqsUpTo(AnalyzeSteps, MaxParseSteps)}

Call_analyze ==
    /\ call.op = "none"
    /\ \E execution_data \in AnalyzeInputs :
          call' = [op |-> "analyze", arg |-> execution_data,
                   ret |-> analyze(execution_data)]
    /\ UNCHANGED <<monitorVars, parserVars, reparsed, processed_steps>>

\* _analyze_error on one failed tool call of step 1, its result missing,
\* null, empty, short, or of a length around the message limit; None.lower()
\* in _classify_error raises AttributeError
Call_analyze_error ==
    /\ call.op = "none"
    /\ \E tool_result \in
              {Absent, Null, Str(<<>>), Str(T_timeout)}
              \cup {Str([i \in 1..(MESSAGE_LIMIT + d) |-> "x"]) :
                        d \in (0 - MaxAround)..MaxAround},
          tool_status \in {Str("failed"), NoWord} :
          LET tool_call == Tool(Str(T_tool), tool_status, tool_result)
          IN  call' = [op |-> "_analyze_error", arg |-> tool_call,
                       ret |-> IF tool_result.tag = "null"
                               THEN [raised |-> "AttributeError",
                                     entry |-> <<>>]
                               ELSE [raised |-> "no",
                                     entry |-> _analyze_error(tool_call, 1)]]
    /\ UNCHANGED <<monitorVars, parserVars, reparsed, processed_steps>>

\* pieces the result texts under test are made of
TextPieces ==
    { T_file_not_found, <<"N", "o", " ", "S", "u", "c", "h", " ", "F", "i", "l", "e">>,
      T_validation, <<"I", "N", "V", "A", "L", "I", "D">>,
      T_timeout, <<"T", "i", "m", "e", "o", "u", "t">>, T_permission,
      <<"t", "i", "m", "e", " ", "o", "u", "t">>, <<";", " ">> }

RECURSIVE TextsUpTo(_)
TextsUpTo(n) ==
    IF n = 0 THEN {<<>>}
    ELSE LET shorter == TextsUpTo(n - 1)
         IN  shorter \cup {a \o b : a \in shorter, b \in TextPieces}

Call_classify_error ==
    /\ call.op = "none"
    /\ \E error_message \in TextsUpTo(MaxPieces) :
          call' = [op |-> "_classify_error", arg |-> error_message,
                   ret |-> [error_type |-> _classify_error(error_message),
                            suggested_fix |->
                                _suggest_fix(_classify_error(error_message))]]
    /\ UNCHANGED <<monitorVars, parserVars, reparsed, processed_steps>>

-----------------------------------------------------------------------------
(* The HTML reports.  A rendered document is a sequence of strings: a piece  *)
(* of the template (a tag, a label, a number) is one element, text taken     *)
(* from the snapshot is spelled one character per element.                   *)

T_script == <<"<", "s", "c", "r", "i", "p", "t", ">">>

\* _escape_html: the five replace() calls, '&' first, so every character is
\* replaced at most once
RECURSIVE _escape_html(_)
_escape_html(text) ==
    IF text = <<>> THEN <<>>
    ELSE LET c == Head(text)
         IN  (CASE c = "&" -> <<"&", "a", "m", "p", ";">>
                [] c = "<" -> <<"&", "l", "t", ";">>
                [] c = ">" -> <<"&", "g", "t", ";">>
                [] c = "\"" -> <<"&", "q", "u", "o", "t", ";">>
                [] c = "'" -> <<"&", "#", "x", "2", "7", ";">>
                [] OTHER -> <<c>>)
             \o _escape_html(Tail(text))

\* text[:n]
Prefix(text, n) == SubSeq(text, 1, Min(n, Len(text)))

\* text[:n] + "..." if len(text) > n else text
Ellipsis(text, n) ==
    IF Len(text) > n THEN Prefix(text, n) \o <<".", ".", ".">> ELSE text

\* the characters of a status word as an f-string embeds it; the words are
\* atoms of the model, the one under test is spelled out
WordText(word) == IF word = "<script>" THEN T_script ELSE <<word>>

\* TimelineVisualizer._step_has_error
_step_has_error(step) ==
    \E j \in 1..Len(step.thinkActSteps) :
        \E k \in 1..Len(step.thinkActSteps[j].actToolInfoList) :
            LET tc == step.thinkActSteps[j].actToolInfoList[k]
            IN  \/ tc.toolExecuteStatus # Str("success")
                \/ Contains(Get(tc.toolName, <<>>).val,
                            <<"e", "r", "r", "o", "r", "-", "r", "e", "p", "o", "r", "t", "-", "t", "o", "o", "l">>)

\* TimelineVisualizer._calculate_step_duration, in seconds
_calculate_step_duration(step) ==
    LET start == TV_parse_time(step.startTime)
        end == TV_parse_time(step.endTime)
    IN  IF start # None /\ end # None THEN end.t - start.t ELSE 0

\* lines 595-611 of TimelineVisualizer.render_html: the tool calls of a turn
RECURSIVE TV_ToolCallsHtml(_)
TV_ToolCallsHtml(tool_calls) ==
    IF tool_calls = <<>> THEN <<>>
    ELSE LET tc == Head(tool_calls)
             tool_name == Get(tc.toolName, T_unknown).val
             exec_status == Get(tc.toolExecuteStatus, "unknown").val
             tool_result == Get(tc.result, <<>>)
             ok == exec_status = "success"
         IN  <<"<div class='tool-call'>",
               "<span>", IF ok THEN "ok" ELSE "x", "</span>",
               "<span class='tool-name'>">>
             \o _escape_html(tool_name)
             \o <<"</span>",
                  IF ok THEN "<span class='tool-success'>"
                        ELSE "<span class='tool-error'>">>
             \o WordText(exec_status)
             \o <<"</span>", "</div>">>
             \o (IF Truthy(tool_result)
                 THEN <<"<div class='tool-result'>">>
                      \o _escape_html(Ellipsis(tool_result.val, 300))
                      \o <<"</div>">>
                 ELSE <<>>)
             \o TV_ToolCallsHtml(Tail(tool_calls))

\* lines 588-613: the turns of a step
RECURSIVE TV_TurnsHtml(_)
TV_TurnsHtml(think_act_steps) ==
    IF think_act_steps = <<>> THEN <<>>
    ELSE LET ta == Head(think_act_steps)
             think_input == Get(ta.thinkInput, <<>>)
         IN  (IF Truthy(think_input)
              THEN <<"<div class='think-act'>", "<div class='think-input'>">>
                   \o _escape_html(Prefix(think_input.val, 200))
                   \o <<"</div>">>
              ELSE <<>>)
             \o TV_ToolCallsHtml(ta.actToolInfoList)
             \o <<"</div>">>
             \o TV_TurnsHtml(Tail(think_act_steps))

\* lines 573-615: the steps from position i on
RECURSIVE TV_StepsHtml(_, _)
TV_StepsHtml(agent_sequence, i) ==
    IF i > Len(agent_sequence) THEN <<>>
    ELSE LET step == agent_sequence[i]
             step_name == Get(step.stepName, <<"Step ", ToString(i)>>).val
         IN  <<IF _step_has_error(step) THEN "<div class='step error'>"
                                        ELSE "<div class='step'>",
               "<div class='step-header'>",
               "<span class='step-title'>", "#", ToString(i), ":", " ">>
             \o step_name
             \o <<"</span>", "<span class='step-duration'>",
                  ToString(_calculate_step_duration(step)), "s", "</span>",
                  "</div>">>
             \o TV_TurnsHtml(step.thinkActSteps)
             \o <<"</div>">>
             \o TV_StepsHtml(agent_sequence, i + 1)

\* TimelineVisualizer.render_html, for text fields that are strings or missing
render_html(execution_data) ==
    LET agent_sequence == execution_data.agentExecutionSequence
    IN  <<"<!DOCTYPE html>", "<html>", "<head>", "<meta>", "<meta>",
          "<title>", "</title>", "<style>", "</style>", "</head>", "<body>",
          "<div class='container'>", "<h1>", "</h1>",
          "<div class='overview'>",
          "<div class='overview-item'>", "total duration", "</div>",
          "<div class='overview-item'>", ToString(Len(agent_sequence)), "</div>",
          "<div class='overview-item'>",
          IF execution_data.completed THEN "completed" ELSE "running", "</div>",
          "</div>", "<h2>", "</h2>", "<div class='timeline'>">>
        \o TV_StepsHtml(agent_sequence, 1)
        \o <<"</div>", "</div>", "</body>", "</html>">>

\* the description of an event as parse_execution_data formats it (lines
\* 201, 216, 244, 259)
Description(event) ==
    CASE event.event_type = "step_start" ->
            DefaultStepName(event.description.n) \o <<":", " ">>
            \o event.description.text
      [] event.event_type = "think" ->
            <<"S", "K", "G", "C", " ", "(", "T", "u", "r", "n", " ",
              ToString(event.description.n), ")">>
      [] event.event_type = "tool_call" ->
            <<"G", "J", "D", "Y", ":", " ">> \o event.description.text
      [] OTHER ->
            DefaultStepName(event.description.n) \o <<" ", "W", "C">>

\* strftime("%H:%M:%S"): instant t is t seconds past midnight
strftime(timestamp) == "00:00:0" \o ToString(timestamp.t)

\* lines 439-490 of render_html_timeline: one event
EventHtml(event) ==
    LET item_class ==
            IF event.status = "error" THEN "<div class='timeline-item error'>"
            ELSE IF event.status = "recovery"
            THEN "<div class='timeline-item recovery'>"
            ELSE IF event.status = "success"
            THEN "<div class='timeline-item success'>"
            ELSE "<div class='timeline-item'>"
        Detail(field, open) ==
            IF Truthy(field)
            THEN open \o _escape_html(Prefix(field.val, 200)) \o <<"</div>">>
            ELSE <<>>
    IN  <<item_class, "<div class='timeline-dot'>", "</div>">>
        \o (IF event.timestamp # None
            THEN <<"<div class='timeline-time'>", strftime(event.timestamp),
                   "</div>">>
            ELSE <<>>)
        \o <<"<div class='timeline-content'>",
             "<span class='event-type'>", event.event_type, "</span>",
             "<div class='event-description'>">>
        \o _escape_html(Description(event))
        \o <<"</div>">>
        \o Detail(event.details.input,
                  <<"<div class='thinking-process'>", "<div class='label'>",
                    "</div>", "<div class='content'>">>)
        \o (IF Truthy(event.details.input) THEN <<"</div>">> ELSE <<>>)
        \o Detail(event.details.output,
                  <<"<div class='thinking-process'>", "<div class='label'>",
                    "</div>", "<div class='content'>">>)
        \o (IF Truthy(event.details.output) THEN <<"</div>">> ELSE <<>>)
        \o Detail(event.details.result,
                  <<"<div class='event-details'>", "<strong>", "</strong>">>)
        \o <<"</div>", "</div>">>

RECURSIVE EventsHtml(_)
EventsHtml(events) ==
    IF events = <<>> THEN <<>>
    ELSE EventHtml(Head(events)) \o EventsHtml(Tail(events))

\* the five statistic cards (lines 428-434)
RECURSIVE StatCards(_)
StatCards(numbers) ==
    IF numbers = <<>> THEN <<>>
    ELSE <<"<div class='stat-card'>", "<div class='number'>",
           ToString(Head(numbers)), "</div>", "<div class='label'>", "</div>",
           "</div>">>
         \o StatCards(Tail(numbers))

\* AdvancedTimelineVisualizer.render_html_timeline
render_html_timeline(events) ==
    LET stats == Statistics(events)
    IN  <<"<!DOCTYPE html>", "<html>", "<head>", "<meta>", "<meta>",
          "<title>", "</title>", "<style>", "</style>", "</head>", "<body>",
          "<div class='container'>", "<div class='header'>", "<h1>", "</h1>",
          "<p>", "</p>", "</div>", "<div class='stats'>">>
        \o StatCards(<<stats.total_steps, stats.total_thinks,
                       stats.total_tools, stats.errors, stats.recoveries>>)
        \o <<"</div>", "<div class='timeline'>">>
        \o EventsHtml(events)
        \o <<"</div>", "</div>", "</body>", "</html>">>

-----------------------------------------------------------------------------
(* The ASCII and Markdown reports of AdvancedTimelineVisualizer.  A report   *)
(* is its lines joined with "\n".                                            *)

\* the widths of render_ascii_timeline: the description is cut at 50
\* characters, a detail at 60, and both are padded to 55
ASCII_DESCRIPTION == 50
ASCII_DETAIL == 60
ASCII_PAD == 55
\* width = 80 (line 299)
ASCII_WIDTH == 80

\* len() of a piece of a line of the ASCII report: the frame lines are "+" + "=" * (width
\* - 2) + "+", the title line holds 20 blanks, a 13-character title and
\* width - 42 blanks between its borders; an icon is one character, the
\* warning icon two; a time is 8 characters; a detail label is an icon, a
\* blank and two characters; a character of user text is one
PieceLen(piece) ==
    CASE piece \in {"top", "rule", "blank", "bottom"} ->
            1 + (ASCII_WIDTH - 2) + 1
      [] piece = "title" -> 1 + 20 + 13 + (ASCII_WIDTH - 42) + 1
      [] piece = "warning" -> 2
      [] piece \in {"--:--:--"} \cup {strftime([t |-> t]) : t \in 0..9} -> 8
      [] piece \in {"think", "answer", "result"} -> 4
      [] OTHER -> 1

\* "\n".join(lines)
RECURSIVE JoinLines(_)
JoinLines(lines) ==
    IF lines = <<>> THEN <<>>
    ELSE IF Len(lines) = 1 THEN lines[1]
    ELSE lines[1] \o <<"\n">> \o JoinLines(Tail(lines))

\* the concatenation of a sequence of sequences
RECURSIVE Concat(_)
Concat(seqs) == IF seqs = <<>> THEN <<>> ELSE Head(seqs) \o Concat(Tail(seqs))

\* self.status_icons.get(event.status, pin): the icon, named by its key
Icon(status) ==
    IF status \in {"pending", "running", "finished", "failed", "error",
                   "recovery", "warning"}
    THEN status ELSE "pin"

\* event.timestamp.strftime("%%H:%%M:%%S") if event.timestamp else "--:--:--"
TimeStr(event) ==
    IF event.timestamp # None THEN strftime(event.timestamp) ELSE "--:--:--"

\* f"{text:<width}": padded with blanks on the right, never cut
Pad(text, width) ==
    text \o [i \in 1..(IF Len(text) < width THEN width - Len(text) ELSE 0) |-> " "]

\* AdvancedTimelineVisualizer.render_ascii_timeline; "|" stands for the box
\* characters
render_ascii_timeline(events) ==
    LET DetailLine(field, label) ==
            IF Truthy(field)
            THEN <<<<"|", " ", " ", " ", " ", " ", label, ":", " ">>
                   \o Pad(Ellipsis(field.val, ASCII_DETAIL), ASCII_PAD)
                   \o <<" ", "|">>>>
            ELSE <<>>
        EventLines(event) ==
            <<<<"|", " ", Icon(event.status), " ", TimeStr(event), " ", "|", " ">>
              \o Pad(Ellipsis(Description(event), ASCII_DESCRIPTION), ASCII_PAD)
              \o <<" ", "|">>>>
            \o DetailLine(event.details.input, "think")
            \o DetailLine(event.details.output, "answer")
            \o DetailLine(event.details.result, "result")
    IN  IF events = <<>> THEN <<"no record">>
        ELSE JoinLines(<<<<"top">>, <<"title">>, <<"rule">>, <<"blank">>>>
                       \o Concat([i \in 1..Len(events) |-> EventLines(events[i])])
                       \o <<<<"bottom">>>>)

\* description.replace("|", "\\|")
RECURSIVE EscapePipes(_)
EscapePipes(text) ==
    IF text = <<>> THEN <<>>
    ELSE (IF Head(text) = "|" THEN <<"\\", "|">> ELSE <<Head(text)>>)
         \o EscapePipes(Tail(text))

\* AdvancedTimelineVisualizer.render_markdown_timeline: the report, or the
\* exception it raised (len(None) for a think event whose input is null)
render_markdown_timeline(events) ==
    LET stats == Statistics(events)
        Details(event) ==
            IF event.details.input.tag = "absent" THEN <<>>
            ELSE Ellipsis(event.details.input.val, 30)
        Row(event) ==
            <<"|", " ", TimeStr(event), " ", "|", " ">>
            \o EscapePipes(Description(event))
            \o <<" ", "|", " ", Icon(event.status), " ", event.status, " ",
                 "|", " ">>
            \o Details(event) \o <<" ", "|">>
    IN  IF \E i \in 1..Len(events) : events[i].details.input.tag = "null"
        THEN [raised |-> "TypeError", report |-> <<>>]
        ELSE [raised |-> "no",
              report |->
                JoinLines(<<<<"# report", "\n">>, <<"## timeline", "\n">>,
                            <<"### statistics">>,
                            <<"- steps: ", ToString(stats.total_steps)>>,
                            <<"- thinks: ", ToString(stats.total_thinks)>>,
                            <<"- tools: ", ToString(stats.total_tools)>>,
                            <<"- errors: ", ToString(stats.errors)>>,
                            <<"- recoveries: ", ToString(stats.recoveries), "\n">>,
                            <<"### timeline">>,
                            <<"|", "time", "|", "event", "|", "status", "|",
                              "detail", "|">>,
                            <<"|", "------", "|", "------", "|", "------", "|",
                              "------", "|">>>>
                          \o [i \in 1..Len(events) |-> Row(events[i])])]

\* a step of a report under test: one turn with one tool call; script names
\* the field that carries "<script>" ("none": no field, "all": every field)
ReportStep(script, start) ==
    LET T_name == <<"n", "m">>
        Text(field, benign) ==
            IF script \in {field, "all"} THEN T_script ELSE benign
    IN  [stepName |-> Str(Text("stepName", T_name)),
         agentRequest |-> Str(<<"S", ":", " ">> \o Text("stepName", T_name)),
         startTime |-> start, endTime |-> NoTimeValue,
         status |-> Str("RUNNING"),
         thinkActSteps |->
            <<Turn(Str(Text("thinkInput", T_goal)),
                   Str(Text("thinkOutput", T_analyzing)),
                   <<Tool(Str(Text("toolName", T_tool)),
                          Str(IF script \in {"toolExecuteStatus", "all"}
                              THEN "<script>" ELSE "success"),
                          Str(Text("result", T_goal)))>>)>>]

ReportInputs ==
    LET ReportSteps ==
            {ReportStep(script, start) :
                script \in {"none", "stepName", "thinkInput", "thinkOutput",
                            "toolName", "toolExecuteStatus", "result", "all"},
                start \in {NoTimeValue, [form |-> "iso", t |-> 1]}}
    IN  {[completed |-> TRUE, agentExecutionSequence |-> q] :
            q \in SeqsUpTo(ReportSteps, MaxReportSteps)}

\* TimelineVisualizer.render_html(execution_data)
Call_render_html ==
    /\ call.op = "none"
    /\ \E execution_data \in ReportInputs :
          call' = [op |-> "render_html", arg |-> execution_data,
                   ret |-> render_html(execution_data)]
    /\ UNCHANGED <<monitorVars, parserVars, reparsed, processed_steps>>

\* TimelineVisualizer.render_html on one step whose only turn has a think
\* input that is missing, empty or a text, and up to two tool calls
Call_render_html_turn ==
    /\ call.op = "none"
    /\ \E think_input \in {Absent, Str(<<>>), Str(T_goal)},
          tool_calls \in SeqsUpTo({Tool(Str(T_tool), Str("success"),
                                        Str(T_goal)),
                                   Tool(Str(T_tool), Str("failed"),
                                        Str(<<>>))}, 2) :
          LET execution_data ==
                  [completed |-> TRUE,
                   agentExecutionSequence |->
                      <<[ReportStep("none", NoTimeValue) EXCEPT
                            !.thinkActSteps =
                                <<Turn(think_input, Str(T_analyzing),
                                       tool_calls)>>]>>]
          IN  call' = [op |-> "render_html", arg |-> execution_data,
                       ret |-> render_html(execution_data)]
    /\ UNCHANGED <<monitorVars, parserVars, reparsed, processed_steps>>

\* events = parse_execution_data(execution_data), then one of the three
\* renderers of AdvancedTimelineVisualizer (main, lines 666-690)
Call_render_timeline ==
    /\ call.op = "none"
    /\ \E execution_data \in ReportInputs,
          format \in {"render_ascii_timeline", "render_markdown_timeline",
                      "render_html_timeline"} :
          LET events == parse_execution_data(execution_data).events
              markdown == render_markdown_timeline(events)
          IN  call' = [op |-> format, arg |-> execution_data,
                       events |-> events,
                       raised |-> IF format = "render_markdown_timeline"
                                  THEN markdown.raised ELSE "no",
                       ret |-> CASE format = "render_ascii_timeline" ->
                                       render_ascii_timeline(events)
                                 [] format = "render_markdown_timeline" ->
                                       markdown.report
                                 [] OTHER -> render_html_timeline(events)]
    /\ UNCHANGED <<monitorVars, parserVars, reparsed, processed_steps>>

\* render_ascii_timeline on the events of one step whose think input has a
\* length around the pad width or around the detail limit
Call_render_ascii_details ==
    /\ call.op = "none"
    /\ \E limit \in {ASCII_PAD, ASCII_DETAIL},
          d \in (0 - MaxAround)..MaxAround,
          start \in {NoTimeValue, [form |-> "iso", t |-> 1]} :
          LET think_input == [i \in 1..(limit + d) |-> "x"]
              execution_data ==
                  [completed |-> TRUE,
                   agentExecutionSequence |->
                      <<Step(Str(T_request), start, NoTimeValue,
                             Str("RUNNING"),
                             <<Turn(Str(think_input), Str(T_analyzing),
                                    <<Tool(Str(T_tool), Str("success"),
                                           Str(T_goal))>>)>>)>>]
              events == parse_execution_data(execution_data).events
          IN  call' = [op |-> "render_ascii_timeline", arg |-> execution_data,
                       events |-> events, raised |-> "no",
                       ret |-> render_ascii_timeline(events)]
    /\ UNCHANGED <<monitorVars, parserVars, reparsed, processed_steps>>

\* render_markdown_timeline on the events of one step whose goal, tool name
\* and think input may hold a pipe character, whose think input may also be
\* null or hold a line break
Call_render_markdown_cells ==
    /\ call.op = "none"
    /\ \E goal \in {T_request, <<"S", ":", " ", "a", "|", "b">>},
          tool_name \in {T_tool, <<"f", "|", "|", "s">>},
          think_input \in {Str(T_goal), Str(<<"x", "|", "y">>),
                           Str(<<"x", "\n", "y">>), Null} :
          LET execution_data ==
                  [completed |-> TRUE,
                   agentExecutionSequence |->
                      <<Step(Str(goal), [form |-> "iso", t |-> 1], NoTimeValue,
                             Str("RUNNING"),
                             <<Turn(think_input, Str(T_analyzing),
                                    <<Tool(Str(tool_name), Str("success"),
                                           Str(T_goal))>>)>>)>>]
              events == parse_execution_data(execution_data).events
              markdown == render_markdown_timeline(events)
          IN  call' = [op |-> "render_markdown_timeline",
                       arg |-> execution_data, events |-> events,
                       raised |-> markdown.raised, ret |-> markdown.report]
    /\ UNCHANGED <<monitorVars, parserVars, reparsed, processed_steps>>

-----------------------------------------------------------------------------
(* The display-truncation sites *)

\* TimelineMonitor._get_progress_info (lines 271-272): a step name longer
\* than 18 characters is cut to 15 and gets "..."
STEP_NAME_LIMIT == 18
STEP_NAME_KEPT == 15

\* analyze_timeline (line 87): a result of 500 characters or more is cut to
\* 500 and gets "... (truncated)"
REPORT_RESULT == 500

\* the text a site displays for a text
Truncate(site, text) ==
    CASE site = "description" -> Ellipsis(text, ASCII_DESCRIPTION)
      [] site = "detail" -> Ellipsis(text, ASCII_DETAIL)
      [] site = "step name" ->
            IF Len(text) > STEP_NAME_LIMIT
            THEN Prefix(text, STEP_NAME_KEPT) \o <<".", ".", ".">>
            ELSE text
      [] site = "report result" ->
            IF Len(text) < REPORT_RESULT THEN text
            ELSE Prefix(text, REPORT_RESULT)
                 \o <<".", ".", ".", " ", "(", "t", "r", "u", "n", "c", "a", "t", "e", "d", ")">>

\* the limit N of a site
Limit(site) ==
    CASE site = "description" -> ASCII_DESCRIPTION
      [] site = "detail" -> ASCII_DETAIL
      [] site = "step name" -> STEP_NAME_LIMIT
      [] site = "report result" -> REPORT_RESULT

\* a text of a length around the site's limit is displayed
Call_truncate ==
    /\ call.op = "none"
    /\ \E site \in {"description", "detail", "step name", "report result"},
          d \in (0 - MaxAround)..MaxAround :
          LET text == [i \in 1..(Limit(site) + d) |-> "x"]
          IN  call' = [op |-> "truncate", arg |-> text, site |-> site,
                       ret |-> Truncate(site, text)]
    /\ UNCHANGED <<monitorVars, parserVars, reparsed, processed_steps>>

-----------------------------------------------------------------------------
(* parse_execution_data on one tool call, and on the goal text of one step *)

\* the tool names under test
ToolNames ==
    { Absent, Str(T_tool), Str(<<"R", "e", "p", "a", "i", "r", "-", "d", "b">>), Str(<<"a", "u", "t", "o", "F", "I", "X">>), Str(<<"e", "r", "r", "o", "r", "-", "r", "e", "p", "o", "r", "t">>), Str(<<"F", "i", "x", "-", "E", "r", "r", "o", "r">>), Str(<<"p", "r", "e", "f", "i", "x", "-", "i", "o">>),
      Str(<<"E", "R", "R">>) }

\* a snapshot of one step without times whose only turn makes one tool call:
\* its only event is the tool call
Call_parse_tool_call ==
    /\ call.op = "none"
    /\ \E tool_name \in ToolNames,
          tool_status \in {NoWord, NullWord, Str("success"), Str("SUCCESS"),
                           Str("failed")} :
          LET tool == Tool(tool_name, tool_status, Str(T_goal))
              execution_data ==
                  [completed |-> TRUE,
                   agentExecutionSequence |->
                      <<Step(Absent, NoTimeValue, NoTimeValue, NoWord,
                             <<Turn(Absent, Absent, <<tool>>)>>)>>]
          IN  call' = [op |-> "parse_execution_data", case |-> "tool call",
                       arg |-> tool,
                       ret |-> parse_execution_data(execution_data)]
    /\ UNCHANGED <<monitorVars, parserVars, reparsed, processed_steps>>

\* the goal texts under test
GoalTexts ==
    { Absent, Null, Str(<<>>), Str(T_request), Str(T_goal),
      Str(<<"a", ":", "b", ":", "c">>), Str(<<":", " ", "x">>), Str(<<" ", "a", " ", ":", " ", " ", "b", " ">>), Str(<<"a", ":", " ", "b", "\n", "c", ":", "d">>), Str(<<"a", "b", "\n", "c", ":", "d">>) }

\* a snapshot of started steps, the last of which has the goal text under
\* test: the step-start events come in step order
Call_parse_step_name ==
    /\ call.op = "none"
    /\ \E agent_request \in GoalTexts, n \in 1..MaxParseSteps :
          LET execution_data ==
                  [completed |-> FALSE,
                   agentExecutionSequence |->
                      [i \in 1..n |->
                          Step(IF i = n THEN agent_request ELSE Str(T_request),
                               ListTime(i), NoTimeValue, Str("RUNNING"),
                               <<>>)]]
          IN  call' = [op |-> "parse_execution_data", case |-> "step name",
                       arg |-> agent_request, n |-> n,
                       ret |-> parse_execution_data(execution_data)]
    /\ UNCHANGED <<monitorVars, parserVars, reparsed, processed_steps>>

\* _step_has_error(step) and ErrorAnalyzer.analyze on the record made of
\* that step alone, for a step whose only turn makes one tool call
Call_step_has_error ==
    /\ call.op = "none"
    /\ \E tool_name \in
              ToolNames
              \cup {Str(<<"e", "r", "r", "o", "r", "-", "r", "e", "p", "o", "r", "t", "-", "t", "o", "o", "l">>)},
          tool_status \in {NoWord, Str("success"), Str("failed")} :
          LET step == Step(Absent, NoTimeValue, NoTimeValue, NoWord,
                           <<Turn(Absent, Absent,
                                  <<Tool(tool_name, tool_status,
                                         Str(T_goal))>>)>>)
          IN  call' = [op |-> "_step_has_error", arg |-> step,
                       ret |-> [has_error |-> _step_has_error(step),
                                analysis |->
                                    analyze([completed |-> TRUE,
                                             agentExecutionSequence |->
                                                 <<step>>])]]
    /\ UNCHANGED <<monitorVars, parserVars, reparsed, processed_steps>>

ToolsInit ==
    /\ plan = EmptyPlan
    /\ now = 0
    /\ mon = "RealtimeMonitor"
    /\ pc = "init"
    /\ timeout = 1
    /\ verbose = TRUE
    /\ start_time = 0
    /\ details = NoData
    /\ result = NoData
    /\ last_event_count = 0
    /\ feed = <<>>
    /\ last_step_count = 0
    /\ total_steps_estimate = 0
    /\ printed = <<>>
    /\ progress = NoProgress
    /\ last_response = "none"
    /\ polls = 0
    /\ sleeps = 0
    /\ poll_elapsed = 0
    /\ fetch_time = 0
    /\ snap = EmptyPlan
    /\ parsed = NoParse
    /\ reparsed = NoParse
    /\ call = NoCall
    /\ processed_steps = {}

ToolsNext ==
    \/ Call_parse_time
    \/ Call_analyze
    \/ Call_analyze_error
    \/ Call_classify_error
    \/ Call_render_html
    \/ Call_render_html_turn
    \/ Call_render_timeline
    \/ Call_render_ascii_details
    \/ Call_render_markdown_cells
    \/ Call_truncate
    \/ Call_parse_tool_call
    \/ Call_parse_step_name
    \/ Call_step_has_error

ToolsSpec == ToolsInit /\ [][ToolsNext]_vars

-----------------------------------------------------------------------------
(* visualize_workflow.visualize_timeline: the poll loop that prints each     *)
(* state of each step.  The server's steps carry currentStep, id, status,    *)
(* startTime and thinkActSteps; steps are appended in currentStep order, so  *)
(* steps.sort(key=currentStep) (line 93) leaves the list as it is.           *)

\* while time.time() - start_time < 120 (line 85), time.sleep(2) (line 141)
VIZ_TIMEOUT == 120
VIZ_SLEEP == 2

\* what is left unchanged by the loop and by its server
vizFrame == <<timeout, verbose, result, last_event_count, feed, last_step_count,
              total_steps_estimate, progress, polls, sleeps, fetch_time, snap,
              parsed, reparsed, call>>

\* the loop reads the record only in its fetch, so the server's operations
\* are taken when the loop is about to fetch
V_Running == mon = "visualize_timeline" /\ pc = "loop"

\* growth operations a record of this server is the result of
V_PlanSize(p) ==
    SumOver([i \in 1..Len(p.agentExecutionSequence) |->
                1 + (IF p.agentExecutionSequence[i].status = Str("FINISHED")
                     THEN 1 ELSE 0)
                + Len(p.agentExecutionSequence[i].thinkActSteps)],
            Len(p.agentExecutionSequence))

\* the server starts a step: with no id, with the id of its position, or
\* with the id "1" that the first step may carry too; its start time is the
\* numeric sequence the loop expects or an ISO string
V_AppendStep ==
    /\ V_Running /\ ~plan.completed /\ V_PlanSize(plan) < MaxOps
    /\ LET n == Len(plan.agentExecutionSequence) + 1
       IN  \E id \in {Absent, Str(<<ToString(n)>>), Str(<<"1">>)},
              start \in {ListTime(1), [form |-> "iso", t |-> 1]} :
              plan' = SetSteps(Append(plan.agentExecutionSequence,
                          [currentStep |-> n, id |-> id,
                           status |-> Str("RUNNING"), startTime |-> start,
                           thinkActSteps |-> <<>>]))
    /\ UNCHANGED <<now, mon, pc, start_time, details, printed, last_response,
                   poll_elapsed, processed_steps>>
    /\ UNCHANGED vizFrame

\* the server fills a step in: a turn is added, or the step finishes
V_UpdateStep ==
    /\ V_Running /\ ~plan.completed /\ V_PlanSize(plan) < MaxOps
    /\ \E i \in 1..Len(plan.agentExecutionSequence) :
          \/ plan' = SetSteps([plan.agentExecutionSequence EXCEPT
                         ![i].thinkActSteps = Append(@, NewTurn)])
          \/ /\ plan.agentExecutionSequence[i].status = Str("RUNNING")
             /\ plan' = SetSteps([plan.agentExecutionSequence EXCEPT
                            ![i].status = Str("FINISHED")])
    /\ UNCHANGED <<now, mon, pc, start_time, details, printed, last_response,
                   poll_elapsed, processed_steps>>
    /\ UNCHANGED vizFrame

V_Complete ==
    /\ V_Running /\ ~plan.completed
    /\ plan' = [plan EXCEPT !.completed = TRUE]
    /\ UNCHANGED <<now, mon, pc, start_time, details, printed, last_response,
                   poll_elapsed, processed_steps>>
    /\ UNCHANGED vizFrame

\* f"{step_id}_{step_status}" (line 102): a missing id reads "None"
unique_key(step) ==
    (IF step.id.tag = "str" THEN step.id.val ELSE <<"N", "o", "n", "e">>)
    \o <<"_", step.status.val>>

\* format_time_str: datetime.datetime(*ts_list[:6]) raises TypeError unless
\* ts_list is a numeric sequence
format_time_str_raises(ts_list) == ts_list.form \notin {"absent", "list"}

\* the for loop of lines 96-135 over the steps not yet looked at: the keys
\* added, the steps printed, and whether printing raised.  A step whose
\* start time cannot be formatted raises after its header was printed and
\* its key added.
RECURSIVE V_PrintNew(_, _, _)
V_PrintNew(steps, processed, out) ==
    IF steps = <<>>
    THEN [raised |-> FALSE, processed_steps |-> processed, printed |-> out]
    ELSE LET step == Head(steps)
         IN  IF unique_key(step) \in processed
             THEN V_PrintNew(Tail(steps), processed, out)
             ELSE IF format_time_str_raises(step.startTime)
             THEN [raised |-> TRUE,
                   processed_steps |-> processed \cup {unique_key(step)},
                   printed |-> Append(out, step)]
             ELSE V_PrintNew(Tail(steps), processed \cup {unique_key(step)},
                             Append(out, step))

V_Start ==
    /\ mon = "visualize_timeline" /\ pc = "init"
    /\ processed_steps' = {}
    /\ start_time' = now
    /\ pc' = "loop"
    /\ UNCHANGED <<plan, now, mon, details, printed, last_response,
                   poll_elapsed>>
    /\ UNCHANGED vizFrame

\* the while condition is false: the loop is left at the deadline
V_TimedOut ==
    /\ mon = "visualize_timeline" /\ pc = "loop"
    /\ ~(now - start_time < VIZ_TIMEOUT)
    /\ pc' = "TimedOut"
    /\ UNCHANGED <<plan, now, mon, start_time, details, printed,
                   last_response, poll_elapsed, processed_steps>>
    /\ UNCHANGED vizFrame

\* one iteration up to the sleep (lines 86-139).  requests.get raises
\* ("error"), answers with another status ("500": continue, back to
\* the while condition without sleeping) or answers 200.
V_Poll ==
    /\ mon = "visualize_timeline" /\ pc = "loop"
    /\ now - start_time < VIZ_TIMEOUT
    /\ \E response \in {"200", "500", "error"}, d \in 0..MaxFetchTime :
        LET steps == plan.agentExecutionSequence
            out == V_PrintNew(steps, processed_steps, <<>>)
        IN  /\ now' = now + d
            /\ poll_elapsed' = now - start_time
            /\ last_response' = response
            /\ IF response = "error"
               THEN /\ pc' = "Exception"
                    /\ UNCHANGED <<printed, processed_steps>>
               ELSE IF response # "200"
               THEN /\ pc' = "loop"
                    /\ UNCHANGED <<printed, processed_steps>>
               ELSE /\ processed_steps' = out.processed_steps
                    /\ printed' = printed \o out.printed
                    /\ pc' = IF out.raised THEN "Exception"
                             ELSE IF plan.completed THEN "Completed"
                             ELSE "sleep"
    /\ UNCHANGED <<plan, mon, start_time, details>>
    /\ UNCHANGED vizFrame

\* time.sleep(2) (line 141)
V_Sleep ==
    /\ mon = "visualize_timeline" /\ pc = "sleep"
    /\ now' = now + VIZ_SLEEP
    /\ pc' = "loop"
    /\ UNCHANGED <<plan, mon, start_time, details, printed, last_response,
                   poll_elapsed, processed_steps>>
    /\ UNCHANGED vizFrame

VizInit ==
    /\ plan = EmptyPlan
    /\ now = 0
    /\ mon = "visualize_timeline"
    /\ pc = "init"
    /\ timeout = VIZ_TIMEOUT
    /\ verbose = TRUE
    /\ start_time = 0
    /\ details = NoData
    /\ result = NoData
    /\ last_event_count = 0
    /\ feed = <<>>
    /\ last_step_count = 0
    /\ total_steps_estimate = 0
    /\ printed = <<>>
    /\ progress = NoProgress
    /\ last_response = "none"
    /\ polls = 0
    /\ sleeps = 0
    /\ poll_elapsed = 0
    /\ fetch_time = 0
    /\ snap = EmptyPlan
    /\ parsed = NoParse
    /\ reparsed = NoParse
    /\ call = NoCall
    /\ processed_steps = {}

VizNext ==
    \/ V_AppendStep \/ V_UpdateStep \/ V_Complete
    \/ V_Start \/ V_TimedOut \/ V_Poll \/ V_Sleep

VizSpec == VizInit /\ [][VizNext]_vars

-----------------------------------------------------------------------------
(* Properties *)

IsPrefix(a, b) == Len(a) <= Len(b) /\ SubSeq(b, 1, Len(a)) = a

RemoveAt(s, i) == SubSeq(s, 1, i - 1) \o SubSeq(s, i + 1, Len(s))

\* the events of a snapshot that were not reported before, in order (an
\* event reported once accounts for one occurrence)
RECURSIVE Unreported(_, _)
Unreported(events, reported) ==
    IF events = <<>> THEN <<>>
    ELSE LET i == IndexOf(reported, Head(events), 1)
         IN  IF i # 0
             THEN Unreported(Tail(events), RemoveAt(reported, i))
             ELSE <<Head(events)>> \o Unreported(Tail(events), reported)

\* report.split("\n"): the lines of a report
Lines(report) ==
    LET n == Len(report)
        ends == {i \in 1..(n + 1) : i = n + 1 \/ report[i] = "\n"}
        End(k) == CHOOSE e \in ends : Cardinality({b \in ends : b < e}) = k - 1
        Start(k) == IF k = 1 THEN 1 ELSE End(k - 1) + 1
    IN  [k \in 1..Cardinality(ends) |-> SubSeq(report, Start(k), End(k) - 1)]

\* the set of len(line) over the lines of a report
LineLens(report) ==
    LET lines == Lines(report)
    IN  {SumOver([k \in 1..Len(lines[i]) |-> PieceLen(lines[i][k])],
                 Len(lines[i])) : i \in 1..Len(lines)}

\* the cells of a table row: one less than its pipes that no backslash escapes
Cells(row) ==
    Cardinality({i \in 1..Len(row) :
                    row[i] = "|" /\ (i = 1 \/ row[i - 1] # "\\")}) - 1

Polling == {"loop", "sleep"}
Transient == {"500", "error"}

\* C1: after every successful poll of RealtimeMonitor.monitor the events
\* emitted to the live feed so far are, element for element and in order,
\* parse_execution_data of the snapshot polled last (nothing reported twice,
\* nothing lost), the record having only grown between the polls.
C1_FeedIsLastParse ==
    (mon = "RealtimeMonitor" /\ details.some)
        => feed = parse_execution_data(details.data).events

\* C2: monotonic delta: whenever the record grows (a step appended; an end
\* time, a turn or a tool call filled in), the event list of the earlier
\* record is a prefix of the event list of the later one.
C2_MonotonicDelta ==
    [][IsPrefix(parse_execution_data(plan).events,
                parse_execution_data(plan').events)]_vars

\* C3: a fetch that fails transiently (an error response other than 404, a
\* network error, a request timeout) leaves the monitor polling, and only a
\* 404 ends it in Failed.
C3_TransientKeepsPolling ==
    [][polls' = polls + 1 =>
          /\ last_response' \in Transient => pc' \in Polling
          /\ pc' = "Failed" => last_response' = "404"]_vars

\* C4: the poll that fetches a completed snapshot emits that snapshot's
\* not-yet-reported events (RealtimeMonitor) or steps (TimelineMonitor, which
\* prints steps only when verbose), ends in Completed and returns the
\* snapshot; after Completed nothing is fetched, slept or emitted any more.
C4_CompletionIsFinal ==
    [][/\ (polls' = polls + 1 /\ last_response' = "200" /\ plan.completed) =>
            /\ pc' = "Completed"
            /\ result' = Some(plan)
            /\ mon = "RealtimeMonitor" =>
                 feed' = feed \o Unreported(parse_execution_data(plan).events,
                                            feed)
            /\ (mon = "TimelineMonitor" /\ verbose) =>
                 printed' = printed \o PrintedSteps(plan.agentExecutionSequence,
                                Len(printed), Len(plan.agentExecutionSequence))
       /\ pc = "Completed" =>
            UNCHANGED <<pc, polls, sleeps, now, result, feed, printed>>]_vars

\* C5: a monitor that ends in TimedOut returns a result that carries every
\* event it accumulated over its polls.
C5_TimedOutCarriesEvents ==
    (pc = "TimedOut" /\ feed # <<>>) =>
        /\ result.some
        /\ \A i \in 1..Len(feed) :
              IndexOf(parse_execution_data(result.data).events, feed[i], 1) # 0

\* C6: an operator interrupt ends the monitor in Cancelled, and the monitor
\* returns what it had accumulated: the snapshot fetched last is not
\* discarded.
C6_CancelReturnsAccumulated ==
    pc \in {"Cancelled", "KeyboardInterrupt"} =>
        /\ pc = "Cancelled"
        /\ details.some => result = details

\* C7: the deadline is checked once per poll iteration and ends the loop:
\* neither monitor issues a fetch once the elapsed time has reached the
\* caller's deadline.
C7_DeadlineEndsLoop == polls > 0 => poll_elapsed < timeout

\* C8, as claimed: with deadline 5 and a 1-second poll interval the monitor
\* has made at least 5 polls when it ends in TimedOut, whatever the fetch
\* calls take.
C8_AtLeastFivePolls == pc = "TimedOut" => polls >= 5

\* C8, amended: with deadline 5 and a 1-second poll interval the monitor has
\* made at least 1 and at most 5 polls when it ends in TimedOut, and exactly
\* 5 when the fetch calls took no time.
C8_AtMostFivePolls ==
    pc = "TimedOut" =>
        /\ polls \in 1..5
        /\ fetch_time = 0 => polls = 5

\* C8's case: the monitor timed out after fetches that took time
C8_SlowFetchWitness == pc = "TimedOut" /\ fetch_time > 0 /\ polls < 5

\* C9: while the snapshot is not completed, the percentage TimelineMonitor
\* shows is observed steps / max(observed steps, prior estimate, 3).
C9_ProgressFloor ==
    (progress.shown /\ ~progress.completed) =>
        progress.percent =
            (progress.steps * 100)
                \div Max(Max(progress.steps, progress.prior), 3)

\* C10: parse_execution_data never raises: whatever optional fields are
\* missing, null or malformed, it returns an event list.
C10_ParseNeverRaises == parsed.done => parsed.raised = "no"

\* C11: _parse_time is total and yields one comparable instant type: no call
\* raises, whatever the value, and any two instants it returned can be
\* compared with each other.
C11_ParseTimeTotalComparable ==
    call.op = "_parse_time" =>
        /\ call.ret.first.raised = "no"
        /\ call.ret.second.raised = "no"
        /\ (call.ret.first.value # None /\ call.ret.second.value # None)
              => Comparable(call.ret.first.value, call.ret.second.value)

C13_ThinkOnlyStatistics ==
    LET steps == snap.agentExecutionSequence
        k == Len(steps)
        IsThinkOnlyStep(step) ==
            /\ step.startTime.form \in {"list", "iso", "isoZ"}
            /\ step.endTime.form = "absent"
            /\ Len(step.thinkActSteps) = 1
            /\ Truthy(step.thinkActSteps[1].thinkOutput)
            /\ step.thinkActSteps[1].actToolInfoList = <<>>
    IN  (parsed.done /\ k > 0 /\ \A i \in 1..k : IsThinkOnlyStep(steps[i])) =>
            /\ parsed.raised = "no"
            /\ Len(parsed.events) = 2 * k
            /\ Statistics(parsed.events).total_steps = k
            /\ Statistics(parsed.events).total_thinks = k
            /\ Statistics(parsed.events).total_tools = 0
            /\ Statistics(parsed.events).errors = 0
            /\ (\A i \in 1..(k - 1) : steps[i].startTime.t < steps[i + 1].startTime.t)
                 => \A i \in 1..k :
                       /\ parsed.events[2 * i - 1].event_type = "step_start"
                       /\ parsed.events[2 * i - 1].description.n = i
                       /\ parsed.events[2 * i].event_type = "think"

\* C14: ErrorAnalyzer.analyze returns exactly one entry per qualifying tool
\* call and none for the others, in step/turn/tool-call order, each with the
\* 1-based position of its step.  A call qualifies when its status is not
\* exactly success (a missing or unrecognized one included) or its name
\* contains "error" in any letter case.
C14_OneEntryPerQualifyingCall ==
    call.op = "analyze" =>
        LET IsQualifyingCall(c) ==
                \/ c.tc.toolExecuteStatus # Str("success")
                \/ /\ c.tc.toolName.tag = "str"
                   /\ Contains(LowerText(c.tc.toolName.val), T_error)
            qualifying ==
                SelectSeq(ToolCallsOf(call.arg.agentExecutionSequence, 1),
                          IsQualifyingCall)
        IN  /\ call.ret.raised = "no"
            /\ Len(call.ret.errors) = Len(qualifying)
            /\ \A i \in 1..Len(qualifying) :
                  /\ call.ret.errors[i].step = qualifying[i].step
                  /\ call.ret.errors[i].tool
                        = Get(qualifying[i].tc.toolName, <<>>)

\* C15: the category is the first rule that matches the lower-cased result
\* text, in the order file_not_found, validation_error, timeout,
\* permission_error, else unknown_error (a text with both "timeout" and
\* "file not found" is file_not_found), and each category has one fixed
\* suggestion.
C15_FirstMatchWins ==
    call.op = "_classify_error" =>
        LET text == LowerText(call.arg)
            Has(word) == Contains(text, word)
            error_type == call.ret.error_type
        IN  /\ (Has(T_file_not_found) \/ Has(T_no_such_file))
                  <=> error_type = "file_not_found"
            /\ (error_type = "validation_error")
                  <=> /\ ~(Has(T_file_not_found) \/ Has(T_no_such_file))
                      /\ (Has(T_validation) \/ Has(T_invalid))
            /\ (error_type = "timeout")
                  <=> /\ ~(Has(T_file_not_found) \/ Has(T_no_such_file))
                      /\ ~(Has(T_validation) \/ Has(T_invalid))
                      /\ Has(T_timeout)
            /\ (error_type = "permission_error")
                  <=> /\ ~(Has(T_file_not_found) \/ Has(T_no_such_file))
                      /\ ~(Has(T_validation) \/ Has(T_invalid))
                      /\ ~Has(T_timeout)
                      /\ Has(T_permission)
            /\ error_type \in {"file_not_found", "validation_error", "timeout",
                                "permission_error", "unknown_error"}
            /\ call.ret.suggested_fix = _suggest_fix(error_type)

\* C15's case: a text with both "timeout" and "file not found", in mixed
\* letter case, was classified
C15_TimeoutAndFileNotFound ==
    /\ call.op = "_classify_error"
    /\ Contains(LowerText(call.arg), T_timeout)
    /\ Contains(LowerText(call.arg), T_file_not_found)
    /\ call.arg # LowerText(call.arg)
    /\ call.ret.error_type = "file_not_found"

\* C16: all user-supplied text is HTML-escaped: whichever text field of the
\* snapshot contains "<script>" (step name, tool name, execution status,
\* think input or output, result), the output of TimelineVisualizer.render_html
\* and of AdvancedTimelineVisualizer.render_html_timeline contains no literal
\* "<script>".
C16_NoLiteralScript ==
    call.op \in {"render_html", "render_html_timeline"} =>
        ~Contains(call.ret, T_script)

\* C17: in the ASCII, the Markdown and the HTML renderer an event whose
\* timestamp is absent is rendered without raising and shows the placeholder
\* "--:--:--" where the time would appear: the report has one placeholder per
\* event without a timestamp.
C17_PlaceholderForAbsentTime ==
    call.op \in {"render_ascii_timeline", "render_markdown_timeline",
                 "render_html_timeline"} =>
        /\ call.raised = "no"
        /\ CountIf([i \in DOMAIN call.ret |-> call.ret[i] = "--:--:--"])
           = CountIf([i \in DOMAIN call.events |->
                         call.events[i].timestamp = None])

\* C18: at every display-truncation site with limit N (description 50,
\* detail 60, step name, report result 500) a text of at most N characters
\* is displayed unchanged, and a longer one as exactly N + 3 characters: its
\* first N characters followed by "...".
C18_TruncationAtEverySite ==
    call.op = "truncate" =>
        LET N == Limit(call.site)
        IN  IF Len(call.arg) <= N THEN call.ret = call.arg
            ELSE /\ Len(call.ret) = N + 3
                 /\ call.ret = SubSeq(call.arg, 1, N) \o <<".", ".", ".">>

\* C19: the status of a tool-call event follows the precedence recovery >
\* error-named > success > error: recovery if the tool name contains
\* "repair" or "fix" in any letter case; otherwise error if it contains
\* "error"; otherwise success if the execution status is exactly success;
\* otherwise error.
C19_ToolStatusPrecedence ==
    (call.op = "parse_execution_data" /\ call.case = "tool call") =>
        LET name == LowerText(IF call.arg.toolName.tag = "str"
                              THEN call.arg.toolName.val ELSE T_unknown)
        IN  /\ call.ret.raised = "no"
            /\ Len(call.ret.events) = 1
            /\ call.ret.events[1].event_type = "tool_call"
            /\ call.ret.events[1].status =
                  IF Contains(name, T_repair) \/ Contains(name, T_fix)
                  THEN "recovery"
                  ELSE IF Contains(name, T_error) THEN "error"
                  ELSE IF call.arg.toolExecuteStatus = Str("success")
                  THEN "success" ELSE "error"

\* C19's case: a failed call of a tool named with "fix" is a recovery event
C19_FailedFixIsRecovery ==
    /\ call.op = "parse_execution_data" /\ call.case = "tool call"
    /\ call.arg.toolName.tag = "str"
    /\ Contains(LowerText(call.arg.toolName.val), T_fix)
    /\ call.arg.toolExecuteStatus = Str("failed")
    /\ call.ret.events[1].status = "recovery"

\* C20, as claimed: the name in a step-start event's description is the
\* text before the first ':' on the first line of the step's goal text, and
\* "Step <n>" (the default name of the n-th step) when that line has no
\* colon.
C20_NameBeforeColon ==
    (call.op = "parse_execution_data" /\ call.case = "step name"
     /\ call.ret.raised = "no") =>
        LET goal == IF call.arg.tag = "str" THEN call.arg.val ELSE <<>>
            nl == IndexOf(goal, "\n", 1)
            first_line == IF nl = 0 THEN goal ELSE SubSeq(goal, 1, nl - 1)
            colon == IndexOf(first_line, ":", 1)
        IN  call.ret.events[call.n].description.text =
                IF colon # 0 THEN SubSeq(first_line, 1, colon - 1)
                ELSE DefaultStepName(call.n)

\* C20, amended: the name in a step-start event's description is the text
\* after the first ':' on the first line of the step's goal text, without its
\* leading and trailing blanks, and the default name of the n-th step when
\* that line has no colon.
C20_NameAfterColon ==
    (call.op = "parse_execution_data" /\ call.case = "step name"
     /\ call.ret.raised = "no") =>
        LET goal == IF call.arg.tag = "str" THEN call.arg.val ELSE <<>>
            nl == IndexOf(goal, "\n", 1)
            first_line == IF nl = 0 THEN goal ELSE SubSeq(goal, 1, nl - 1)
            colon == IndexOf(first_line, ":", 1)
            after == SubSeq(first_line, colon + 1, Len(first_line))
            name == call.ret.events[call.n].description.text
        IN  /\ call.ret.events[call.n].event_type = "step_start"
            /\ call.ret.events[call.n].description.n = call.n
            /\ colon = 0 => name = DefaultStepName(call.n)
            /\ colon # 0 =>
                  /\ \E i \in 0..Len(after), j \in 0..Len(after) :
                        /\ i + j <= Len(after)
                        /\ name = SubSeq(after, i + 1, Len(after) - j)
                        /\ \A k \in 1..i : after[k] = " "
                        /\ \A k \in (Len(after) - j + 1)..Len(after) :
                              after[k] = " "
                  /\ name # <<>> => name[1] # " " /\ name[Len(name)] # " "

\* C20's case: the second step's goal has text on both sides of its first
\* colon, and the event carries the text after it
C20_TextAfterColonWitness ==
    /\ call.op = "parse_execution_data" /\ call.case = "step name"
    /\ call.n = 2
    /\ call.arg = Str(<<"a", ":", "b", ":", "c">>)
    /\ call.ret.events[2].description.text = <<"b", ":", "c">>

\* C21: a step that has neither a start time nor an end time contributes no
\* events to the normalized list, whatever turns, think text and tool calls
\* it contains: the list is the sorted events of the other steps alone.
C21_UntimedStepInvisible ==
    (parsed.done /\ parsed.raised = "no") =>
        LET agent_sequence == snap.agentExecutionSequence
            Untimed(step) ==
                step.startTime = NoTimeValue /\ step.endTime = NoTimeValue
        IN  parsed.events =
                SortByTime(Concat([i \in 1..Len(agent_sequence) |->
                                      IF Untimed(agent_sequence[i]) THEN <<>>
                                      ELSE StepEvents(agent_sequence[i], i)]),
                           <<>>)

\* C22: the normalized event list is sorted by timestamp ascending, an
\* absent timestamp counting as the minimum instant; the sort is stable
\* (events with equal timestamps, two absent ones included, keep their
\* emission order: each emitted event stands at the position given by the
\* number of events with a smaller timestamp, or an equal one and emitted
\* earlier); sorting the sorted list again changes nothing.
C22_SortedStable ==
    (parsed.done /\ parsed.raised = "no") =>
        LET emitted == EmittedEvents(snap.agentExecutionSequence, 1)
            n == Len(emitted)
            Before(j, i) ==
                \/ SortKey(emitted[j]) < SortKey(emitted[i])
                \/ SortKey(emitted[j]) = SortKey(emitted[i]) /\ j < i
            Rank(i) == Cardinality({j \in 1..n : Before(j, i)}) + 1
        IN  /\ Len(parsed.events) = n
            /\ \A i \in 1..n, j \in 1..n :
                  i < j => SortKey(parsed.events[i]) <= SortKey(parsed.events[j])
            /\ \A i \in 1..n : parsed.events[i].timestamp = None =>
                  \A j \in 1..n : j < i => parsed.events[j].timestamp = None
            /\ \A i \in 1..n : parsed.events[Rank(i)] = emitted[i]
            /\ SortByTime(parsed.events, <<>>) = parsed.events

\* C22's case: the sort moved an event, and two different events with the
\* same timestamp kept their emission order
C22_ReorderedWithTiesWitness ==
    /\ parsed.done /\ parsed.raised = "no"
    /\ LET emitted == EmittedEvents(snap.agentExecutionSequence, 1)
       IN  /\ parsed.events # emitted
           /\ \E i \in 1..Len(emitted), j \in 1..Len(emitted) :
                 /\ i < j
                 /\ emitted[i] # emitted[j]
                 /\ SortKey(emitted[i]) = SortKey(emitted[j])
                 /\ \E a \in 1..Len(emitted), b \in 1..Len(emitted) :
                       /\ a < b
                       /\ parsed.events[a] = emitted[i]
                       /\ parsed.events[b] = emitted[j]

\* C23: classifying a tool-call failure never raises: for a qualifying tool
\* call whose result text is absent, null or empty, _analyze_error returns an
\* entry with category unknown_error and the empty message; otherwise the
\* message is the first 200 characters of the result text.
C23_AnalyzeErrorNeverRaises ==
    call.op = "_analyze_error" =>
        LET tool_result == call.arg.result
        IN  /\ call.ret.raised = "no"
            /\ IF tool_result.tag # "str" \/ tool_result.val = <<>>
               THEN /\ call.ret.entry.error_type = "unknown_error"
                    /\ call.ret.entry.message = <<>>
               ELSE call.ret.entry.message
                        = Prefix(tool_result.val, MESSAGE_LIMIT)

\* C24: the ASCII report is a fixed 80-column frame: for every (non-empty)
\* event list every line of render_ascii_timeline's output, frame, event and
\* detail lines alike and whatever the lengths of the texts, has the same
\* width of 80.
C24_EveryLineIs80Wide ==
    (call.op = "render_ascii_timeline" /\ call.events # <<>>) =>
        LineLens(call.ret) = {ASCII_WIDTH}

\* C25: the Markdown timeline has exactly one table row per event, in the
\* order of the event list: the lines after the table's rule are as many as
\* the events, the i-th has the four cells time / event / status / detail
\* and holds the i-th event's time and its description with every pipe
\* character escaped as \|.
C25_OneFourCellRowPerEvent ==
    call.op = "render_markdown_timeline" =>
        /\ call.raised = "no"
        /\ LET lines == Lines(call.ret)
               n == Len(call.events)
               rule == Len(lines) - n
               Row(i) == lines[rule + i]
           IN  /\ rule >= 1
               /\ lines[rule] = <<"|", "------", "|", "------", "|", "------",
                                  "|", "------", "|">>
               /\ \A i \in 1..n :
                     /\ Cells(Row(i)) = 4
                     /\ Row(i)[3] = TimeStr(call.events[i])
                     /\ Contains(Row(i),
                                 <<"|", " ">>
                                 \o EscapePipes(Description(call.events[i]))
                                 \o <<" ", "|">>)

C27_DelayBetweenFetches ==
    [][/\ (V_Poll /\ last_response # "none") =>
              poll_elapsed' >= poll_elapsed + VIZ_SLEEP
       /\ (pc = "loop" /\ pc' \notin {"loop", "sleep"}) =>
              \/ pc' = "Completed" /\ plan.completed
              \/ pc' = "TimedOut" /\ now - start_time >= VIZ_TIMEOUT
              \/ pc' = "Exception"
       /\ (V_Poll /\ last_response' = "500") => pc' = "loop"
       /\ (V_Poll /\ last_response' = "error") => pc' = "Exception"
       /\ (V_Poll /\ last_response' = "200"
           /\ \E i \in 1..Len(plan.agentExecutionSequence) :
                 /\ unique_key(plan.agentExecutionSequence[i])
                        \notin processed_steps
                 /\ \A j \in 1..(i - 1) :
                        unique_key(plan.agentExecutionSequence[j])
                            # unique_key(plan.agentExecutionSequence[i])
                 /\ format_time_str_raises(
                        plan.agentExecutionSequence[i].startTime)) =>
              pc' = "Exception"]_vars

\* C28: visualize_timeline prints every distinct state of every step exactly
\* once: after a poll that read the record, each of its steps has been
\* printed once with the status it has now, also two different steps that
\* carry the same or no id and a step whose turns grew while its status
\* stayed the same.
C28_EveryStepStateOnce ==
    [][(V_Poll /\ last_response' = "200" /\ pc' # "Exception") =>
          \A i \in 1..Len(plan.agentExecutionSequence) :
              LET step == plan.agentExecutionSequence[i]
              IN  Cardinality({k \in 1..Len(printed') :
                                  /\ printed'[k].currentStep = step.currentStep
                                  /\ printed'[k].status = step.status}) = 1]_vars

\* C29: the two error judgements of timeline_monitor agree: for every step,
\* _step_has_error(step) is true if and only if ErrorAnalyzer.analyze
\* returns at least one entry for that step, whatever the tool names and
\* the execution statuses.
C29_ErrorJudgementsAgree ==
    call.op = "_step_has_error" =>
        (call.ret.has_error <=>
            (call.ret.analysis.raised = "no"
             /\ call.ret.analysis.errors # <<>>))

\* C30: TimelineVisualizer.render_html emits balanced markup for every
\* snapshot: the closing </div> tags are as many as the opening <div> tags,
\* in particular for turns whose think input is empty or absent and for
\* turns with several tool calls.
C30_DivsBalanced ==
    call.op = "render_html" =>
        LET Opening ==
                {"<div class='container'>", "<div class='overview'>",
                 "<div class='overview-item'>", "<div class='timeline'>",
                 "<div class='step'>", "<div class='step error'>",
                 "<div class='step-header'>", "<div class='think-act'>",
                 "<div class='think-input'>", "<div class='tool-call'>",
                 "<div class='tool-result'>"}
        IN  CountIf([i \in DOMAIN call.ret |-> call.ret[i] \in Opening])
            = CountIf([i \in DOMAIN call.ret |-> call.ret[i] = "</div>"])

====
